---- MODULE Spec2Model ----
(***************************************************************************)
(* Model of the QuantumEngine backend adapters: the columnar (ClickHouse)  *)
(* adapter and the document/graph (SurrealDB) adapter, of the backend      *)
(* registry, of the columnar field types and of the connection pool.  Each *)
(* group of operations has a specification of its own over the same        *)
(* variables.                                                              *)
(*                                                                         *)
(* A piece of query text is a sequence of lexemes (strings); white space   *)
(* between lexemes is not represented.  A Python string value is a         *)
(* sequence of one-character strings.                                      *)
(***************************************************************************)
EXTENDS Integers, Sequences, FiniteSets, TLC

VARIABLES
    table,        \* the rows of the one table of the store, in storage order
    emptyInList,  \* TRUE iff the columnar server accepts an empty IN list
    last,         \* the adapter call made last: its inputs and its outcome
    catalog,      \* the schema objects of the columnar store: tables and views
    backends,     \* BackendRegistry._backends
    pool          \* the connection pool: its entries, holders and waiters

vars == <<table, emptyInList, last, catalog, backends, pool>>

(***************************************************************************)
(* Python dicts: functions whose domain is the set of keys.                *)
(***************************************************************************)
EmptyDict == [key \in {} |-> key]
Put(dict, key, item) == [x \in (DOMAIN dict) \cup {key} |-> IF x = key THEN item ELSE dict[x]]

\* a store in which nothing has been created
EmptyCatalog == [tables |-> EmptyDict, views |-> EmptyDict]

\* no pool has been created
NoPool == [entries |-> <<>>]

(***************************************************************************)
(* Bounds of the model.                                                    *)
(***************************************************************************)
MaxStrLen == 2
MaxRows == 2
MaxInt == 2
MaxFields == 3

(***************************************************************************)
(* Python values.                                                          *)
(***************************************************************************)
Chars == {"a", "'", "\"", "\\", "%", "_", ":"}

RECURSIVE SeqsUpTo(_, _)
SeqsUpTo(S, n) ==
    IF n = 0 THEN {<<>>}
    ELSE LET shorter == SeqsUpTo(S, n - 1)
         IN  shorter \cup {Append(s, x) : s \in shorter, x \in S}

Strs == SeqsUpTo(Chars, MaxStrLen)
Ints == 0..MaxInt

PyNone == [t |-> "none", v |-> <<>>]
PyStr(s) == [t |-> "str", v |-> s]
PyInt(n) == [t |-> "int", v |-> <<n>>]
PyList(xs) == [t |-> "list", v |-> xs]
PyTuple(xs) == [t |-> "tuple", v |-> xs]
PyRecordID(tb, id) == [t |-> "recordid", v |-> <<tb, id>>]

Scalars == {PyNone} \cup {PyStr(s) : s \in Strs} \cup {PyInt(n) : n \in Ints}
SmallScalars == {PyInt(n) : n \in Ints} \cup {PyStr(<<"a">>), PyStr(<<"'">>)}
Lists == {PyList(xs) : xs \in SeqsUpTo(SmallScalars, 2)}
Tuples == {PyTuple(<<PyInt(a), PyInt(b)>>) : a \in Ints, b \in Ints}
Values == Scalars \cup Lists \cup Tuples

DigitStr == <<"0", "1", "2", "3", "4", "5", "6", "7", "8", "9">>
\* str(n) for the integers of the model
IntStr(n) == <<DigitStr[n + 1]>>

\* s.replace(c, r): every occurrence of the character c replaced by the text r
RECURSIVE Replace(_, _, _)
Replace(s, c, r) ==
    IF s = <<>> THEN <<>>
    ELSE (IF Head(s) = c THEN r ELSE <<Head(s)>>) \o Replace(Tail(s), c, r)

\* ", ".join(parts)
RECURSIVE Join(_, _)
Join(parts, sep) ==
    IF parts = <<>> THEN <<>>
    ELSE IF Len(parts) = 1 THEN parts[1]
    ELSE parts[1] \o sep \o Join(Tail(parts), sep)

\* str(value) of a tuple of integers: "(0, 1)"
PyStrOfTuple(xs) ==
    <<"(">> \o Join([i \in 1..Len(xs) |-> IntStr(xs[i].v[1])], <<",">>) \o <<")">>

\* str(RecordID(tb, id))
RecordIDStr(rid) == rid.v[1] \o <<":">> \o rid.v[2]

(***************************************************************************)
(* format_value of the two adapters.                                       *)
(***************************************************************************)
\* isinstance(value, str): value.replace("'", "\\'") between single quotes
ChFormatStr(s) == <<"'">> \o Replace(s, "'", <<"\\", "'">>) \o <<"'">>

RECURSIVE ChFormatValue(_)
ChFormatValue(value) ==
    CASE value.t = "none" -> <<"NULL">>
      [] value.t = "str" -> ChFormatStr(value.v)
      [] value.t = "int" -> IntStr(value.v[1])
      [] value.t = "list" ->
            <<"[">> \o Join([i \in 1..Len(value.v) |-> ChFormatValue(value.v[i])], <<",">>)
                    \o <<"]">>
      [] value.t = "tuple" -> ChFormatStr(PyStrOfTuple(value.v))
      [] OTHER -> ChFormatStr(RecordIDStr(value))

\* isinstance(value, str): value.replace('"', '\\"') between double quotes
SdbFormatStr(s) == <<"\"">> \o Replace(s, "\"", <<"\\", "\"">>) \o <<"\"">>

RECURSIVE SdbFormatValue(_)
SdbFormatValue(value) ==
    CASE value.t = "none" -> <<"NONE">>
      [] value.t = "str" -> SdbFormatStr(value.v)
      [] value.t = "int" -> IntStr(value.v[1])
      [] value.t = "recordid" -> RecordIDStr(value)
      [] value.t = "list" ->
            <<"[">> \o Join([i \in 1..Len(value.v) |-> SdbFormatValue(value.v[i])], <<",">>)
                    \o <<"]">>
      [] OTHER -> <<"\"">> \o PyStrOfTuple(value.v) \o <<"\"">>

(***************************************************************************)
(* build_condition of the two adapters.  The outcome is the exception      *)
(* raised ("none" when the call returns) and the predicate text returned.  *)
(***************************************************************************)
Returned(text) == [exc |-> "none", text |-> text]
Raised(e) == [exc |-> e, text |-> <<>>]

CmpOps == {"=", "!=", ">", "<", ">=", "<="}
SharedOps == CmpOps \cup {"in", "not in", "contains", "like", "ilike", "between",
                          "is null", "is not null"}
OtherOps == {"startswith", "matches"}
Ops == SharedOps \cup OtherOps

\* the backquote character (SANY does not lex it inside a string)
Bq == "BQ"

\* the field name between backquotes
ChField(field) == <<Bq, field, Bq>>

ChBuildCondition(field, operator, value) ==
    LET f == ChField(field)
        inList(kw) ==
            IF value.t = "list"
            THEN f \o kw \o <<"(">>
                   \o Join([i \in 1..Len(value.v) |-> ChFormatValue(value.v[i])], <<",">>)
                   \o <<")">>
            ELSE f \o kw \o ChFormatValue(value)
    IN  Returned(
        CASE operator \in CmpOps -> f \o <<operator>> \o ChFormatValue(value)
          [] operator = "in" -> inList(<<"IN">>)
          [] operator = "not in" -> inList(<<"NOT", "IN">>)
          [] operator = "like" -> f \o <<"LIKE">> \o ChFormatValue(value)
          [] operator = "ilike" -> f \o <<"ILIKE">> \o ChFormatValue(value)
          [] operator = "contains" ->
                IF value.t = "str"
                THEN LET escaped_value ==
                             Replace(Replace(value.v, "%", <<"\\", "%">>), "_", <<"\\", "_">>)
                     IN  f \o <<"LIKE">>
                           \o ChFormatValue(PyStr(<<"%">> \o escaped_value \o <<"%">>))
                ELSE <<"has", "(">> \o f \o <<",">> \o ChFormatValue(value) \o <<")">>
          [] operator = "is null" -> f \o <<"IS", "NULL">>
          [] operator = "is not null" -> f \o <<"IS", "NOT", "NULL">>
          [] OTHER -> f \o <<operator>> \o ChFormatValue(value))

\* index of the first occurrence of c in s, 0 when there is none
RECURSIVE IndexOf(_, _)
IndexOf(s, c) ==
    IF s = <<>> THEN 0
    ELSE IF Head(s) = c THEN 1
    ELSE LET r == IndexOf(Tail(s), c) IN IF r = 0 THEN 0 ELSE r + 1

\* the value build_condition formats: an id given as "table:key" becomes a RecordID
SdbConditionValue(field, value) ==
    IF field = "id" /\ value.t = "str" /\ IndexOf(value.v, ":") > 0
    THEN LET k == IndexOf(value.v, ":")
         IN  PyRecordID(SubSeq(value.v, 1, k - 1), SubSeq(value.v, k + 1, Len(value.v)))
    ELSE value

SdbBuildCondition(field, operator, value) ==
    LET formatted_value == SdbFormatValue(SdbConditionValue(field, value))
    IN  Returned(
        CASE operator \in CmpOps -> <<field, operator>> \o formatted_value
          [] operator = "in" -> <<field, "INSIDE">> \o formatted_value
          [] OTHER -> <<field, operator>> \o formatted_value)

(***************************************************************************)
(* The store.  A table has the columns Columns, in DESCRIBE order; a row   *)
(* maps each column to an integer.  The store evaluates the WHERE text it  *)
(* is sent with the usual precedence: AND binds tighter than OR.           *)
(***************************************************************************)
MaxColVal == 1
MaxConds == 2
MaxLimit == 1

Columns == <<"a", "b">>
ColSet == {Columns[i] : i \in 1..Len(Columns)}
ColVals == 0..MaxColVal
Rows == [ColSet -> ColVals]
Tables == SeqsUpTo(Rows, MaxRows)

IsIntLit(tok) == \E i \in 1..Len(DigitStr) : DigitStr[i] = tok
LitVal(tok) == (CHOOSE i \in 1..Len(DigitStr) : DigitStr[i] = tok) - 1

\* toks cut at every occurrence of sep that is outside brackets
RECURSIVE SplitTopAcc(_, _, _, _, _)
SplitTopAcc(toks, sep, depth, cur, acc) ==
    IF toks = <<>> THEN Append(acc, cur)
    ELSE LET h == Head(toks)
         IN  IF h = sep /\ depth = 0
             THEN SplitTopAcc(Tail(toks), sep, 0, <<>>, Append(acc, cur))
             ELSE SplitTopAcc(Tail(toks), sep,
                              depth + (IF h \in {"(", "["} THEN 1
                                       ELSE IF h \in {")", "]"} THEN 0 - 1 ELSE 0),
                              Append(cur, h), acc)

SplitTop(toks, sep) == SplitTopAcc(toks, sep, 0, <<>>, <<>>)

And3(rs) ==
    IF \E i \in 1..Len(rs) : rs[i] = "ERR" THEN "ERR"
    ELSE IF \A i \in 1..Len(rs) : rs[i] = "T" THEN "T" ELSE "F"

Or3(rs) ==
    IF \E i \in 1..Len(rs) : rs[i] = "ERR" THEN "ERR"
    ELSE IF \E i \in 1..Len(rs) : rs[i] = "T" THEN "T" ELSE "F"

Bool3(b) == IF b THEN "T" ELSE "F"

\* the items of a literal list "x, y, ...": TRUE iff well formed
ListOk(items) ==
    /\ items = <<>> \/ Len(items) % 2 = 1
    /\ \A i \in 1..Len(items) : IF i % 2 = 1 THEN IsIntLit(items[i]) ELSE items[i] = ","

ListVals(items) == {LitVal(items[i]) : i \in {j \in 1..Len(items) : j % 2 = 1}}

Compare(x, op, y) ==
    CASE op = "=" -> x = y
      [] op = "!=" -> x # y
      [] op = ">" -> x > y
      [] op = "<" -> x < y
      [] op = ">=" -> x >= y
      [] OTHER -> x <= y

\* one comparison of the dialect d ("ch" or "sdb") on a row; "ERR" when the
\* store does not parse it
EvalLeaf(d, toks, row, emptyOk) ==
    LET quoted == d = "ch" /\ Len(toks) >= 3 /\ toks[1] = Bq /\ toks[3] = Bq
                    /\ toks[2] \in ColSet
        bare == Len(toks) >= 1 /\ toks[1] \in ColSet
        col == IF quoted THEN toks[2] ELSE toks[1]
        rest == IF quoted THEN SubSeq(toks, 4, Len(toks)) ELSE Tail(toks)
        n == Len(rest)
        open == IF d = "ch" THEN "(" ELSE "["
        close == IF d = "ch" THEN ")" ELSE "]"
        inKw == IF d = "ch" THEN <<"IN">> ELSE <<"INSIDE">>
        notInKw == IF d = "ch" THEN <<"NOT", "IN">> ELSE <<"not in">>
        member(kw) ==
            /\ n >= Len(kw) + 2
            /\ SubSeq(rest, 1, Len(kw)) = kw
            /\ rest[Len(kw) + 1] = open
            /\ rest[n] = close
            /\ ListOk(SubSeq(rest, Len(kw) + 2, n - 1))
            /\ (emptyOk \/ n > Len(kw) + 2)
        items(kw) == SubSeq(rest, Len(kw) + 2, n - 1)
    IN  IF ~(quoted \/ bare) THEN "ERR"
        ELSE IF n = 2 /\ rest[1] \in CmpOps /\ IsIntLit(rest[2])
        THEN Bool3(Compare(row[col], rest[1], LitVal(rest[2])))
        ELSE IF member(inKw) THEN Bool3(row[col] \in ListVals(items(inKw)))
        ELSE IF member(notInKw) THEN Bool3(row[col] \notin ListVals(items(notInKw)))
        ELSE IF d = "ch" /\ rest = <<"IS", "NULL">> THEN "F"
        ELSE IF d = "ch" /\ rest = <<"IS", "NOT", "NULL">> THEN "T"
        ELSE IF d = "sdb" /\ rest = <<"=", "NONE">> THEN "F"
        ELSE IF d = "sdb" /\ rest = <<"!=", "NONE">> THEN "T"
        ELSE "ERR"

RECURSIVE EvalExpr(_, _, _, _)
EvalExpr(d, toks, row, emptyOk) ==
    LET ors == SplitTop(toks, "OR")
        ands == SplitTop(toks, "AND")
    IN  IF Len(ors) > 1
        THEN Or3([i \in 1..Len(ors) |-> EvalExpr(d, ors[i], row, emptyOk)])
        ELSE IF Len(ands) > 1
        THEN And3([i \in 1..Len(ands) |-> EvalExpr(d, ands[i], row, emptyOk)])
        ELSE IF Len(toks) >= 2 /\ toks[1] = "(" /\ toks[Len(toks)] = ")"
        THEN EvalExpr(d, SubSeq(toks, 2, Len(toks) - 1), row, emptyOk)
        ELSE EvalLeaf(d, toks, row, emptyOk)

\* a row on which the store type-checks a WHERE text before it reads any data
ProbeRow == [c \in ColSet |-> 0]

WhereOk(d, where, emptyOk) ==
    where = <<>> \/ EvalExpr(d, where, ProbeRow, emptyOk) # "ERR"

\* SelectSeq with the predicate inlined: the rows the WHERE text keeps
RECURSIVE Filter(_, _, _, _)
Filter(d, rows, where, emptyOk) ==
    IF rows = <<>> THEN <<>>
    ELSE (IF where = <<>> \/ EvalExpr(d, where, Head(rows), emptyOk) = "T"
          THEN <<Head(rows)>> ELSE <<>>) \o Filter(d, Tail(rows), where, emptyOk)

\* r1 sorts strictly before r2 under ORDER BY order
RECURSIVE Before(_, _, _)
Before(order, r1, r2) ==
    IF order = <<>> THEN FALSE
    ELSE LET f == order[1][1]
             dir == order[1][2]
         IN  IF r1[f] = r2[f] THEN Before(Tail(order), r1, r2)
             ELSE IF dir = "ASC" THEN r1[f] < r2[f] ELSE r1[f] > r2[f]

RECURSIVE InsertSorted(_, _, _)
InsertSorted(order, sorted, r) ==
    IF sorted = <<>> THEN <<r>>
    ELSE IF Before(order, r, Head(sorted)) THEN <<r>> \o sorted
    ELSE <<Head(sorted)>> \o InsertSorted(order, Tail(sorted), r)

RECURSIVE SortRows(_, _)
SortRows(order, rows) ==
    IF rows = <<>> THEN <<>>
    ELSE InsertSorted(order, SortRows(order, SubSeq(rows, 1, Len(rows) - 1)), rows[Len(rows)])

Min(x, y) == IF x < y THEN x ELSE y

\* Optional integers: None, or an integer
Nothing == [some |-> FALSE, n |-> 0]
Some(k) == [some |-> TRUE, n |-> k]
\* Python truthiness of an Optional[int]: None and 0 are falsy
Truthy(o) == o.some /\ o.n # 0

\* the rows a SELECT statement q yields on the rows of the table:
\* WHERE, then ORDER BY, then OFFSET, then LIMIT
StoreSelectRows(d, q, rows, emptyOk) ==
    LET kept == Filter(d, rows, q.where, emptyOk)
        sorted == IF q.order = <<>> THEN kept ELSE SortRows(q.order, kept)
        skipped == IF q.offset.some
                   THEN SubSeq(sorted, q.offset.n + 1, Len(sorted)) ELSE sorted
    IN  IF q.limit.some THEN SubSeq(skipped, 1, Min(q.limit.n, Len(skipped))) ELSE skipped

(***************************************************************************)
(* select and count of the two adapters.                                   *)
(***************************************************************************)
Upper(dir) == IF dir = "asc" THEN "ASC" ELSE IF dir = "desc" THEN "DESC" ELSE dir

\* where a call ends: an exception, or a value
Ok(v) == [exc |-> "none", value |-> v]
Fail(e) == [exc |-> e, value |-> <<>>]

\* " AND ".join(conditions), no clause when the list is empty
WhereClause(conditions) == Join(conditions, <<"AND">>)

\* the SELECT statement both adapters build: a clause is present iff its
\* argument is truthy
SelectQuery(conditions, fields, limit, offset, order_by) ==
    [select |-> IF fields # <<>> THEN fields ELSE <<"*">>,
     where  |-> WhereClause(conditions),
     order  |-> [i \in 1..Len(order_by) |-> <<order_by[i][1], Upper(order_by[i][2])>>],
     limit  |-> IF Truthy(limit) THEN limit ELSE Nothing,
     offset |-> IF Truthy(offset) THEN offset ELSE Nothing]

\* the result_rows of the columnar store: one tuple per row, with the selected
\* columns in the order of the select clause
ChResultRows(q, rows, emptyOk) ==
    LET cols == IF q.select = <<"*">> THEN Columns ELSE q.select
        out == StoreSelectRows("ch", q, rows, emptyOk)
    IN  [i \in 1..Len(out) |-> [j \in 1..Len(cols) |-> out[i][cols[j]]]]

\* dict(zip(names, row))
DictZip(names, row) ==
    [k \in {names[i] : i \in 1..Min(Len(names), Len(row))} |->
        row[CHOOSE i \in 1..Len(names) : names[i] = k]]

ChSelectOp(rows, emptyOk, conditions, fields, limit, offset, order_by) ==
    LET query == SelectQuery(conditions, fields, limit, offset, order_by)
        result == ChResultRows(query, rows, emptyOk)
        column_names == Columns
    IN  IF ~WhereOk("ch", query.where, emptyOk) THEN Fail("DatabaseError")
        ELSE IF result = <<>> THEN Ok(<<>>)
        ELSE Ok([i \in 1..Len(result) |-> DictZip(column_names, result[i])])

ChCountOp(rows, emptyOk, conditions) ==
    LET where == WhereClause(conditions)
    IN  IF ~WhereOk("ch", where, emptyOk) THEN Fail("DatabaseError")
        ELSE Ok(Len(Filter("ch", rows, where, emptyOk)))

\* the documents the document store answers a SELECT with
SdbResultDocs(q, rows) ==
    LET out == StoreSelectRows("sdb", q, rows, TRUE)
        keys == IF q.select = <<"*">> THEN ColSet
                ELSE {q.select[j] : j \in 1..Len(q.select)}
    IN  [i \in 1..Len(out) |-> [k \in keys |-> out[i][k]]]

SdbSelectOp(rows, conditions, fields, limit, offset, order_by) ==
    LET query == SelectQuery(conditions, fields, limit, offset, order_by)
    IN  IF ~WhereOk("sdb", query.where, TRUE) THEN Fail("DatabaseError")
        ELSE Ok(SdbResultDocs(query, rows))

SdbCountOp(rows, conditions) ==
    LET where == WhereClause(conditions)
    IN  IF ~WhereOk("sdb", where, TRUE) THEN Fail("DatabaseError")
        ELSE Ok(Len(Filter("sdb", rows, where, TRUE)))

(***************************************************************************)
(* The callers of the query operations.                                    *)
(***************************************************************************)
Idle == [op |-> "idle"]

\* a predicate of a call: lowered by build_condition, or a raw fragment
Built(field, operator, value) ==
    [kind |-> "built", field |-> field, operator |-> operator, value |-> value,
     raw |-> <<>>]
RawFrag(text) ==
    [kind |-> "raw", field |-> "", operator |-> "", value |-> PyNone, raw |-> text]

CondSources ==
    {Built("a", "=", PyInt(0)),
     Built("a", "in", PyList(<<>>)), Built("a", "not in", PyList(<<>>)),
     RawFrag(<<"a", "=", "1", "OR", "b", "=", "0">>),
     RawFrag(<<"(", "a", "=", "1", "OR", "b", "=", "0", ")">>)}

CondLists == SeqsUpTo(CondSources, MaxConds)
FieldLists == {<<>>, <<"b">>, <<"b", "a">>}
Limits == {Nothing} \cup {Some(k) : k \in 0..MaxLimit}
Offsets == {Nothing} \cup {Some(k) : k \in 1..MaxRows}
OrderBys == {<<>>, <<<<"a", "desc">>>>}

CondText(backend, src) ==
    IF src.kind = "raw" THEN src.raw
    ELSE IF backend = "clickhouse"
         THEN ChBuildCondition(src.field, src.operator, src.value).text
         ELSE SdbBuildCondition(src.field, src.operator, src.value).text

CondTexts(backend, srcs) == [i \in 1..Len(srcs) |-> CondText(backend, srcs[i])]

SelectCall(backend, conds, fields, limit, offset, order_by, out) ==
    [op |-> "select", backend |-> backend, conds |-> conds, fields |-> fields,
     limit |-> limit, offset |-> offset, order_by |-> order_by, out |-> out]

ChSelect ==
    /\ last.op = "idle"
    /\ \E conds \in CondLists, fields \in FieldLists, limit \in Limits,
          offset \in Offsets, order_by \in OrderBys :
          last' = SelectCall("clickhouse", conds, fields, limit, offset, order_by,
                             ChSelectOp(table, emptyInList, CondTexts("clickhouse", conds),
                                        fields, limit, offset, order_by))
    /\ UNCHANGED <<table, emptyInList, catalog, backends, pool>>

SdbSelect ==
    /\ last.op = "idle"
    /\ \E conds \in CondLists, fields \in FieldLists, limit \in Limits,
          offset \in Offsets, order_by \in OrderBys :
          last' = SelectCall("surrealdb", conds, fields, limit, offset, order_by,
                             SdbSelectOp(table, CondTexts("surrealdb", conds),
                                         fields, limit, offset, order_by))
    /\ UNCHANGED <<table, emptyInList, catalog, backends, pool>>

ChCount ==
    /\ last.op = "idle"
    /\ \E conds \in CondLists :
          last' = [op |-> "count", backend |-> "clickhouse", conds |-> conds,
                   out |-> ChCountOp(table, emptyInList, CondTexts("clickhouse", conds))]
    /\ UNCHANGED <<table, emptyInList, catalog, backends, pool>>

SdbCount ==
    /\ last.op = "idle"
    /\ \E conds \in CondLists :
          last' = [op |-> "count", backend |-> "surrealdb", conds |-> conds,
                   out |-> SdbCountOp(table, CondTexts("surrealdb", conds))]
    /\ UNCHANGED <<table, emptyInList, catalog, backends, pool>>

\* the caller takes the outcome of its call
Return ==
    /\ last.op # "idle"
    /\ last' = Idle
    /\ UNCHANGED <<table, emptyInList, catalog, backends, pool>>

Init ==
    /\ table \in Tables
    /\ emptyInList \in BOOLEAN
    /\ last = Idle
    /\ catalog = EmptyCatalog
    /\ backends = EmptyDict
    /\ pool = NoPool

Next == ChSelect \/ SdbSelect \/ ChCount \/ SdbCount \/ Return

Spec == Init /\ [][Next]_vars

(***************************************************************************)
(* The callers of the pure helpers build_condition and format_value.       *)
(***************************************************************************)
\* the fields conditions are built on, and what each holds
CondFields == {"name", "tags", "age", "id"}
FieldKind(field) ==
    CASE field = "tags" -> "array"
      [] field = "age" -> "int"
      [] OTHER -> "text"

ChBuildConditionCall ==
    /\ last.op = "idle"
    /\ \E field \in CondFields, operator \in Ops, value \in Values :
          last' = [op |-> "build_condition", backend |-> "clickhouse", field |-> field,
                   operator |-> operator, value |-> value,
                   out |-> ChBuildCondition(field, operator, value)]
    /\ UNCHANGED <<table, emptyInList, catalog, backends, pool>>

SdbBuildConditionCall ==
    /\ last.op = "idle"
    /\ \E field \in CondFields, operator \in Ops, value \in Values :
          last' = [op |-> "build_condition", backend |-> "surrealdb", field |-> field,
                   operator |-> operator, value |-> value,
                   out |-> SdbBuildCondition(field, operator, value)]
    /\ UNCHANGED <<table, emptyInList, catalog, backends, pool>>

ChFormatValueCall ==
    /\ last.op = "idle"
    /\ \E value \in Values :
          last' = [op |-> "format_value", backend |-> "clickhouse", value |-> value,
                   out |-> ChFormatValue(value)]
    /\ UNCHANGED <<table, emptyInList, catalog, backends, pool>>

SdbFormatValueCall ==
    /\ last.op = "idle"
    /\ \E value \in Values :
          last' = [op |-> "format_value", backend |-> "surrealdb", value |-> value,
                   out |-> SdbFormatValue(value)]
    /\ UNCHANGED <<table, emptyInList, catalog, backends, pool>>

InitCond ==
    /\ table = <<>>
    /\ emptyInList = TRUE
    /\ last = Idle
    /\ catalog = EmptyCatalog
    /\ backends = EmptyDict
    /\ pool = NoPool

NextCond ==
    \/ ChBuildConditionCall
    \/ SdbBuildConditionCall
    \/ ChFormatValueCall
    \/ SdbFormatValueCall
    \/ Return

SpecCond == InitCond /\ [][NextCond]_vars

(***************************************************************************)
(* How the store reads a string literal: the text between the opening      *)
(* quote q and the first quote that is not escaped; a backslash escapes    *)
(* the character after it.  closed is TRUE iff the literal ends exactly at *)
(* the end of the text.                                                    *)
(***************************************************************************)
RECURSIVE ScanLiteral(_, _, _)
ScanLiteral(rest, q, acc) ==
    IF rest = <<>> THEN [closed |-> FALSE, content |-> acc]
    ELSE IF Head(rest) = "\\"
    THEN IF Len(rest) = 1 THEN [closed |-> FALSE, content |-> acc]
         ELSE ScanLiteral(Tail(Tail(rest)), q,
                          acc \o (IF rest[2] \in {q, "\\"} THEN <<rest[2]>>
                                  ELSE <<"\\", rest[2]>>))
    ELSE IF Head(rest) = q
    THEN [closed |-> Tail(rest) = <<>>, content |-> acc]
    ELSE ScanLiteral(Tail(rest), q, Append(acc, Head(rest)))

ReadLiteral(text, q) ==
    IF text = <<>> \/ Head(text) # q THEN [closed |-> FALSE, content |-> <<>>]
    ELSE ScanLiteral(Tail(text), q, <<>>)

(***************************************************************************)
(* Smart ORDER BY inference of the columnar adapter.  A document class is  *)
(* the sequence of its declared fields.                                    *)
(***************************************************************************)
NameChars ==
    [created_at |-> <<"c", "r", "e", "a", "t", "e", "d", "_", "a", "t">>,
     ts |-> <<"t", "s">>,
     user_id |-> <<"u", "s", "e", "r", "_", "i", "d">>,
     kind |-> <<"k", "i", "n", "d">>,
     label |-> <<"l", "a", "b", "e", "l">>,
     value |-> <<"v", "a", "l", "u", "e">>,
     category |-> <<"c", "a", "t", "e", "g", "o", "r", "y">>,
     brand |-> <<"b", "r", "a", "n", "d">>]
FieldNames == DOMAIN NameChars

\* the field class each name is declared with
FieldType ==
    [created_at |-> "DateTimeField", ts |-> "DateTimeField", user_id |-> "StringField",
     kind |-> "LowCardinalityField", label |-> "StringField", value |-> "FloatField",
     category |-> "LowCardinalityField", brand |-> "LowCardinalityField"]

TimeKeywords ==
    {<<"c", "r", "e", "a", "t", "e", "d">>,
     <<"u", "p", "d", "a", "t", "e", "d">>,
     <<"c", "o", "l", "l", "e", "c", "t", "e", "d">>,
     <<"t", "i", "m", "e", "s", "t", "a", "m", "p">>,
     <<"t", "i", "m", "e">>,
     <<"d", "a", "t", "e">>}
IdKeywords ==
    {<<"i", "d">>,
     <<"k", "e", "y">>,
     <<"n", "a", "m", "e">>,
     <<"c", "o", "d", "e">>,
     <<"t", "y", "p", "e">>,
     <<"c", "a", "t", "e", "g", "o", "r", "y">>,
     <<"b", "r", "a", "n", "d">>,
     <<"s", "e", "l", "l", "e", "r">>}

\* keyword in field_name_lower
Contains(s, kw) ==
    \E i \in 1..(Len(s) - Len(kw) + 1) : SubSeq(s, i, i + Len(kw) - 1) = kw
ContainsAny(name, kws) == \E kw \in kws : Contains(NameChars[name], kw)

Fields ==
    {[name |-> n, type |-> FieldType[n], required |-> r, materialized |-> m] :
        n \in FieldNames, r \in BOOLEAN, m \in BOOLEAN}

IsStringField(f) == f.type \in {"StringField", "LowCardinalityField"}

\* the entries left in declaration order
Unsorted(entries) == entries

\* list.sort(key=priority): stable, the priorities are -1, 0 and 1
SelectPriority(entries, p) == SelectSeq(entries, LAMBDA e : e.priority = p)
SortByPriority(entries) ==
    SelectPriority(entries, 0 - 1) \o SelectPriority(entries, 0) \o SelectPriority(entries, 1)

\* the loop of _determine_smart_order_by over the declared fields: the entries
\* of time_fields, categorical_fields and required_fields, in declaration order
RECURSIVE Classify(_)
Classify(fields) ==
    IF fields = <<>> THEN [time |-> <<>>, categorical |-> <<>>, required |-> <<>>]
    ELSE LET f == fields[Len(fields)]
             acc == Classify(SubSeq(fields, 1, Len(fields) - 1))
         IN  IF f.materialized THEN acc
             ELSE IF f.type = "DateTimeField"
             THEN [acc EXCEPT !.time =
                     Append(@, [priority |-> IF ContainsAny(f.name, TimeKeywords)
                                             THEN 0 - 1 ELSE 0,
                                name |-> f.name])]
             ELSE IF IsStringField(f) /\ f.required /\ ContainsAny(f.name, IdKeywords)
             THEN [acc EXCEPT !.categorical =
                     Append(@, [priority |-> IF f.type = "LowCardinalityField"
                                             THEN 0 ELSE 1,
                                name |-> f.name])]
             ELSE IF f.required
             THEN [acc EXCEPT !.required = Append(@, f.name)]
             ELSE acc

Take(s, n) == SubSeq(s, 1, Min(n, Len(s)))

\* _determine_smart_order_by: the ORDER BY columns, and whether it warned
DetermineSmartOrderBy(fields) ==
    LET c == Classify(fields)
        time_fields == SortByPriority(c.time)
        categorical_fields == SortByPriority(c.categorical)
        order_by ==
            IF time_fields # <<>>
            THEN <<time_fields[1].name>>
                   \o (IF categorical_fields # <<>> THEN <<categorical_fields[1].name>>
                       ELSE <<>>)
            ELSE IF categorical_fields # <<>>
            THEN [i \in 1..Min(2, Len(categorical_fields)) |-> categorical_fields[i].name]
            ELSE IF c.required # <<>> THEN <<c.required[1]>>
            ELSE <<>>
        avail == SelectSeq(fields, LAMBDA f : ~f.materialized)
        available_fields == [i \in 1..Len(avail) |-> avail[i].name]
    IN  IF order_by # <<>> THEN [order_by |-> order_by, warned |-> FALSE]
        ELSE [order_by |-> IF available_fields # <<>> THEN Take(available_fields, 3)
                           ELSE <<"tuple()">>,
              warned |-> TRUE]

\* the class under definition: the fields its body has declared so far
DeclaredSoFar == IF last.op = "declare" THEN last.cls ELSE <<>>

\* the class body declares one more field, under a name not yet used
DeclareField ==
    /\ last.op \in {"idle", "declare"}
    /\ Len(DeclaredSoFar) < MaxFields
    /\ \E f \in Fields :
          /\ \A i \in 1..Len(DeclaredSoFar) : DeclaredSoFar[i].name # f.name
          /\ last' = [op |-> "declare", cls |-> Append(DeclaredSoFar, f)]
    /\ UNCHANGED <<table, emptyInList, catalog, backends, pool>>

DetermineSmartOrderByCall ==
    /\ last.op \in {"idle", "declare"}
    /\ last' = [op |-> "determine_smart_order_by", cls |-> DeclaredSoFar,
                out |-> DetermineSmartOrderBy(DeclaredSoFar)]
    /\ UNCHANGED <<table, emptyInList, catalog, backends, pool>>

NextOrderBy == DeclareField \/ DetermineSmartOrderByCall \/ Return

SpecOrderBy == InitCond /\ [][NextOrderBy]_vars

(***************************************************************************)
(* Properties.                                                             *)
(***************************************************************************)
Dialect(backend) == IF backend = "clickhouse" THEN "ch" ELSE "sdb"
EmptyOkFor(backend) == IF backend = "clickhouse" THEN emptyInList ELSE TRUE

\* the rows of the table that the statement of the last select or count keeps
KeptRows ==
    Filter(Dialect(last.backend), table,
           WhereClause(CondTexts(last.backend, last.conds)), EmptyOkFor(last.backend))

\* the rows of the table that satisfy every predicate of the last call, each
\* predicate read on its own
SatisfiesAll(row) ==
    \A i \in 1..Len(last.conds) :
        EvalExpr(Dialect(last.backend), CondText(last.backend, last.conds[i]), row,
                 EmptyOkFor(last.backend)) = "T"
MatchingRows == SelectSeq(table, SatisfiesAll)

SetOf(seq) == {seq[i] : i \in 1..Len(seq)}

\* C1: on both adapters a select that returns yields no row when limit = 0, and
\* no row when offset is at least the number of rows its predicates keep.
C1_LimitZeroOffsetPastEnd ==
    (last.op = "select" /\ last.out.exc = "none") =>
        /\ (last.limit = Some(0) => last.out.value = <<>>)
        /\ (last.offset.some /\ last.offset.n >= Len(KeptRows) => last.out.value = <<>>)

\* C2: a columnar select with a non-empty fields list returns, for every row
\* the statement yields, a map whose keys are exactly the requested fields,
\* each mapped to that row's stored value of the same field.
C2_ProjectionKeysAndValues ==
    (last.op = "select" /\ last.backend = "clickhouse" /\ last.fields # <<>>
        /\ last.out.exc = "none") =>
        LET q == SelectQuery(CondTexts("clickhouse", last.conds), last.fields, last.limit,
                             last.offset, last.order_by)
            src == StoreSelectRows("ch", q, table, emptyInList)
        IN  /\ Len(last.out.value) = Len(src)
            /\ \A i \in 1..Len(src) :
                  /\ DOMAIN last.out.value[i] = SetOf(last.fields)
                  /\ \A f \in SetOf(last.fields) : last.out.value[i][f] = src[i][f]

\* C3: for every string value, format_value returns exactly one well-formed
\* string literal of the dialect whose decoded content is the value.
C3_StringLiteralRoundTrip ==
    (last.op = "format_value" /\ last.value.t = "str") =>
        LET lit == ReadLiteral(last.out, IF last.backend = "clickhouse" THEN "'" ELSE "\"")
        IN  lit.closed /\ lit.content = last.value.v

\* C4: build_condition with an operator outside the shared operator set fails
\* with CapabilityError and returns no predicate, on every adapter.
C4_UnknownOperatorRefused ==
    (last.op = "build_condition" /\ last.operator \notin SharedOps) =>
        last.out.exc = "CapabilityError"

\* C5: the rows the emitted WHERE clause selects are exactly the rows that
\* satisfy every predicate of the list, for built and for raw predicates.
C5_WhereIsConjunction ==
    /\ (last.op = "count" /\ last.out.exc = "none") => last.out.value = Len(MatchingRows)
    /\ (last.op = "select" /\ last.out.exc = "none" /\ ~last.limit.some
          /\ ~last.offset.some) => Len(last.out.value) = Len(MatchingRows)

\* C6: the document/graph build_condition lowers in to INSIDE, not in to
\* NOT INSIDE, is null to = NONE and is not null to != NONE.
C6_SdbOperatorLowering ==
    (last.op = "build_condition" /\ last.backend = "surrealdb") =>
        LET fv == SdbFormatValue(SdbConditionValue(last.field, last.value))
            text == last.out.text
        IN  /\ last.out.exc = "none"
            /\ last.operator = "in" => text = <<last.field, "INSIDE">> \o fv
            /\ last.operator = "not in" => text = <<last.field, "NOT", "INSIDE">> \o fv
            /\ last.operator = "is null" => text = <<last.field, "=", "NONE">>
            /\ last.operator = "is not null" => text = <<last.field, "!=", "NONE">>

IsBuiltWithEmptyList(src, operator) ==
    /\ src.kind = "built"
    /\ src.operator = operator
    /\ src.value.t = "list"
    /\ src.value.v = <<>>

\* C7: on every backend a select whose only predicate is in [] returns zero
\* rows, and one whose only predicate is not in [] returns all rows.
C7_EmptyInList ==
    (last.op = "select" /\ Len(last.conds) = 1) =>
        /\ IsBuiltWithEmptyList(last.conds[1], "in") =>
              last.out.exc = "none" /\ last.out.value = <<>>
        /\ (IsBuiltWithEmptyList(last.conds[1], "not in") /\ ~last.limit.some
              /\ ~last.offset.some) =>
              last.out.exc = "none" /\ Len(last.out.value) = Len(table)

\* C8: build_condition(f, between, (a, b)) lowers to an inclusive range test:
\* BETWEEN a AND b on the columnar adapter, f >= a AND f <= b on the
\* document/graph adapter.
C8_BetweenLowering ==
    (last.op = "build_condition" /\ last.operator = "between" /\ last.value.t = "tuple") =>
        LET a == last.value.v[1]
            b == last.value.v[2]
        IN  IF last.backend = "clickhouse"
            THEN last.out.text = ChField(last.field) \o <<"BETWEEN">> \o ChFormatValue(a)
                                   \o <<"AND">> \o ChFormatValue(b)
            ELSE last.out.text = <<last.field, ">=">> \o SdbFormatValue(a)
                                   \o <<"AND", last.field, "<=">> \o SdbFormatValue(b)

\* C9: on the columnar adapter contains lowers to has(field, v) on an array
\* field and to LIKE '%v%' on a text field: the kind of the field decides.
C9_ContainsByFieldKind ==
    (last.op = "build_condition" /\ last.backend = "clickhouse"
        /\ last.operator = "contains") =>
        /\ FieldKind(last.field) = "array" =>
              last.out.text = <<"has", "(">> \o ChField(last.field) \o <<",">>
                                \o ChFormatValue(last.value) \o <<")">>
        /\ (FieldKind(last.field) = "text" /\ last.value.t = "str") =>
              (/\ Len(last.out.text) > 4
               /\ SubSeq(last.out.text, 1, 4) = ChField(last.field) \o <<"LIKE">>)

\* the required, not materialized fields of a class that satisfy P, as indexes
Candidates(cls, P(_)) ==
    {i \in 1..Len(cls) : cls[i].required /\ ~cls[i].materialized /\ P(cls[i])}
First(idx) == CHOOSE i \in idx : \A j \in idx : i <= j

IsTime(f) == f.type = "DateTimeField"
IsKeywordTime(f) == IsTime(f) /\ ContainsAny(f.name, TimeKeywords)
IsCategorical(f) == IsStringField(f) /\ ContainsAny(f.name, IdKeywords)
IsLowCardCategorical(f) == IsCategorical(f) /\ f.type = "LowCardinalityField"

\* the timestamp field T and the optional categorical field C of the rule
BestTime(cls) ==
    IF Candidates(cls, IsKeywordTime) # {} THEN cls[First(Candidates(cls, IsKeywordTime))].name
    ELSE cls[First(Candidates(cls, IsTime))].name
BestCategorical(cls) ==
    IF Candidates(cls, IsLowCardCategorical) # {}
    THEN cls[First(Candidates(cls, IsLowCardCategorical))].name
    ELSE cls[First(Candidates(cls, IsCategorical))].name

\* C10: with at least one required timestamp field the inferred order-by is
\* [T] or [T, C]: T the first required timestamp field with a time keyword,
\* else the first required timestamp field; C, present iff one exists, the
\* best-ranked required categorical field with an identifier keyword.
C10_OrderByWithTimestamp ==
    (last.op = "determine_smart_order_by" /\ Candidates(last.cls, IsTime) # {}) =>
        last.out.order_by =
            <<BestTime(last.cls)>>
              \o (IF Candidates(last.cls, IsCategorical) # {}
                  THEN <<BestCategorical(last.cls)>> ELSE <<>>)

\* the names of the fields of a class that satisfy P, in declaration order
NamesOf(cls, P(_)) ==
    LET sel == SelectSeq(cls, P) IN [i \in 1..Len(sel) |-> sel[i].name]

IsEligible(f) == f.required /\ ~f.materialized
IsEligibleLowCard(f) == IsEligible(f) /\ IsLowCardCategorical(f)
IsEligiblePlain(f) == IsEligible(f) /\ IsCategorical(f) /\ f.type = "StringField"
IsDeclaredColumn(f) == ~f.materialized

\* the required categorical fields by rank: low-cardinality text before plain
\* text, declaration order within a rank
RankedCategorical(cls) == NamesOf(cls, IsEligibleLowCard) \o NamesOf(cls, IsEligiblePlain)

IsPrefix(s, t) == Len(s) <= Len(t) /\ s = SubSeq(t, 1, Len(s))

HasNoTimestamp(cls) == \A i \in 1..Len(cls) : ~IsTime(cls[i])

\* C11: for a class with no timestamp field the inferred order-by is the first
\* two (or the only one) of the required categorical fields by rank; with no
\* such field it is exactly one required field; with no required field it is
\* the first few declared columns (tuple() when there is none) and a warning
\* is emitted.
C11_OrderByWithoutTimestamp ==
    (last.op = "determine_smart_order_by" /\ HasNoTimestamp(last.cls)) =>
        LET ranked == RankedCategorical(last.cls)
            declared == NamesOf(last.cls, IsDeclaredColumn)
            out == last.out
        IN  IF ranked # <<>>
            THEN /\ out.order_by = Take(ranked, 2)
                 /\ ~out.warned
            ELSE IF Candidates(last.cls, LAMBDA f : TRUE) # {}
            THEN /\ Len(out.order_by) = 1
                 /\ \E i \in Candidates(last.cls, LAMBDA f : TRUE) :
                       out.order_by[1] = last.cls[i].name
                 /\ ~out.warned
            ELSE /\ out.warned
                 /\ out.order_by # <<>>
                 /\ IF declared = <<>> THEN out.order_by = <<"tuple()">>
                    ELSE IsPrefix(out.order_by, declared)

\* C11 witness: a class of three required categorical fields, a plain text one
\* declared before the low-cardinality ones, gets an order-by of two fields.
C11_Witness ==
    /\ last.op = "determine_smart_order_by"
    /\ HasNoTimestamp(last.cls)
    /\ Len(RankedCategorical(last.cls)) > 2
    /\ last.cls[1].type = "StringField"
    /\ Len(last.out.order_by) = 2

(***************************************************************************)
(* create_table of the columnar adapters, and the schema the store keeps.  *)
(* A table of the catalog has its columns, its engine, its sorting key and *)
(* its skip indexes by name.  Options no class of the model declares       *)
(* (engine_params, partition_by, primary_key, ttl, settings) are left out  *)
(* of the statement, as the code leaves them out when they are not given.  *)
(***************************************************************************)
\* Python None in a slot that holds a name, and a key missing from kwargs
NoneName == "None"
AbsentKey == "absent"

\* index_spec.get('granularity', 3)
DefaultGranularity == 3

\* the index types the store builds; any other type is refused
StoreIndexTypes == {"bloom_filter", "set", "minmax"}

IndexSpec(type, granularity) == [type |-> type, granularity |-> granularity]
IndexSpecLists ==
    {<<>>,
     <<IndexSpec("bloom_filter", Nothing)>>,
     <<IndexSpec("minmax", Some(1)), IndexSpec("bogus", Nothing)>>,
     <<IndexSpec("bogus", Nothing), IndexSpec("bloom_filter", Nothing)>>,
     <<IndexSpec("set", Nothing), IndexSpec("set", Some(1))>>}

SchemaField(name, type, required, indexes) ==
    [name |-> name, type |-> type, required |-> required, materialized |-> FALSE,
     indexes |-> indexes]

SchemaFieldLists ==
    {<<SchemaField("user_id", "StringField", TRUE, ix)>> : ix \in IndexSpecLists}
    \cup {<<SchemaField("user_id", "StringField", TRUE, ix),
            SchemaField("label", "StringField", FALSE, <<>>)>> : ix \in IndexSpecLists}
    \cup {<<SchemaField("label", "StringField", FALSE, ix)>> :
            ix \in {<<>>, <<IndexSpec("bloom_filter", Nothing)>>}}

\* a document class: its fields and the engine and order_by of its Meta
SchemaClasses ==
    [fields : SchemaFieldLists,
     engine : {NoneName, "MergeTree"},
     order_by : {<<>>, <<"user_id">>}]

\* the table_name of the class
TableName == "events"

\* the options a caller passes to create_table
CreateKwargs == [engine : {AbsentKey, "ReplacingMergeTree"}]

\* get_field_type, for the field classes of the model
GetFieldType(field) ==
    CASE field.type = "FloatField" -> "Float64"
      [] field.type = "DateTimeField" -> "DateTime64(3)"
      [] field.type = "LowCardinalityField" -> "LowCardinality(String)"
      [] OTHER -> "String"

Column(name, type, kind) == [name |-> name, type |-> type, kind |-> kind]

\* fields_dict of _create_table_op: the declared fields, and id when not declared
FieldsDict(fields) ==
    IF \E i \in 1..Len(fields) : fields[i].name = "id" THEN fields
    ELSE Append(fields, [name |-> "id", type |-> "RecordIDField", required |-> FALSE,
                         materialized |-> FALSE, indexes |-> <<>>])

ChColumns(fields) ==
    LET fd == FieldsDict(fields)
    IN  [i \in 1..Len(fd) |->
            Column(fd[i].name, GetFieldType(fd[i]),
                   IF fd[i].materialized THEN "MATERIALIZED"
                   ELSE IF fd[i].required
                           \/ (fd[i].name = "id" /\ fd[i].type = "RecordIDField")
                   THEN "plain"
                   ELSE "Nullable")]

\* the legacy adapter emits the declared fields only
OrmColumns(fields) ==
    [i \in 1..Len(fields) |->
        Column(fields[i].name, GetFieldType(fields[i]),
               IF fields[i].required THEN "plain" ELSE "Nullable")]

TableDef(columns, engine, order_by) ==
    [columns |-> columns, engine |-> engine, order_by |-> order_by, indexes |-> EmptyDict]

\* CREATE TABLE IF NOT EXISTS name ...
StoreCreateTable(cat, name, def) ==
    IF name \in DOMAIN cat.tables THEN cat
    ELSE [cat EXCEPT !.tables = Put(@, name, def)]

\* DROP TABLE IF EXISTS name
StoreDropTable(cat, name) ==
    [cat EXCEPT !.tables = [n \in (DOMAIN @) \ {name} |-> @[n]]]

\* the statement _create_single_index builds for one index_spec
IndexStatement(table_name, field_name, index_spec) ==
    [table |-> table_name,
     name |-> <<"idx", table_name, field_name, index_spec.type>>,
     field |-> field_name,
     type |-> index_spec.type,
     granularity |-> IF index_spec.granularity.some THEN index_spec.granularity.n
                     ELSE DefaultGranularity]

\* ALTER TABLE t ADD INDEX ...: refused when the table or the column does not
\* exist, when an index of that name exists, or when the type is unknown
StoreAddIndexOk(cat, st) ==
    /\ st.table \in DOMAIN cat.tables
    /\ \E i \in 1..Len(cat.tables[st.table].columns) :
          cat.tables[st.table].columns[i].name = st.field
    /\ st.name \notin DOMAIN cat.tables[st.table].indexes
    /\ st.type \in StoreIndexTypes

StoreAddIndex(cat, st) ==
    [cat EXCEPT !.tables[st.table].indexes =
        Put(@, st.name, [field |-> st.field, type |-> st.type,
                         granularity |-> st.granularity])]

\* the index statements of a class, in the order _create_indexes issues them
RECURSIVE IndexStatements(_, _)
IndexStatements(table_name, fields) ==
    IF fields = <<>> THEN <<>>
    ELSE [i \in 1..Len(Head(fields).indexes) |->
             IndexStatement(table_name, Head(fields).name, Head(fields).indexes[i])]
         \o IndexStatements(table_name, Tail(fields))

\* the same loop without the try/except around the statement
RECURSIVE CreateIndexesUnguarded(_, _)
CreateIndexesUnguarded(cat, stmts) ==
    IF stmts = <<>> THEN [exc |-> "none", catalog |-> cat, warnings |-> 0]
    ELSE IF StoreAddIndexOk(cat, Head(stmts))
    THEN CreateIndexesUnguarded(StoreAddIndex(cat, Head(stmts)), Tail(stmts))
    ELSE [exc |-> "DatabaseError", catalog |-> cat, warnings |-> 0]

\* the same loop giving up, silently, at the first refusal
RECURSIVE CreateIndexesUntilRefused(_, _)
CreateIndexesUntilRefused(cat, stmts) ==
    IF stmts = <<>> THEN [exc |-> "none", catalog |-> cat, warnings |-> 0]
    ELSE IF StoreAddIndexOk(cat, Head(stmts))
    THEN CreateIndexesUntilRefused(StoreAddIndex(cat, Head(stmts)), Tail(stmts))
    ELSE [exc |-> "none", catalog |-> cat, warnings |-> 1]

\* _create_indexes: every statement is tried; a refusal is caught and printed
RECURSIVE CreateIndexes(_, _)
CreateIndexes(cat, stmts) ==
    IF stmts = <<>> THEN [exc |-> "none", catalog |-> cat, warnings |-> 0]
    ELSE IF StoreAddIndexOk(cat, Head(stmts))
    THEN CreateIndexes(StoreAddIndex(cat, Head(stmts)), Tail(stmts))
    ELSE LET r == CreateIndexes(cat, Tail(stmts))
         IN  [r EXCEPT !.warnings = @ + 1]

SchemaOutcome(exc, cat, warnings) == [exc |-> exc, catalog |-> cat, warnings |-> warnings]

\* quantumengine _create_table_op
ChCreateTableOp(cat, cls, kwargs) ==
    LET engine == IF kwargs.engine # AbsentKey THEN kwargs.engine ELSE cls.engine
        order_by == IF cls.order_by # <<>> THEN cls.order_by
                    ELSE DetermineSmartOrderBy(cls.fields).order_by
        created == StoreCreateTable(cat, TableName,
                                    TableDef(ChColumns(cls.fields), engine, order_by))
        indexed == CreateIndexes(created, IndexStatements(TableName, cls.fields))
    IN  IF engine = NoneName THEN SchemaOutcome("ValueError", cat, 0)
        ELSE SchemaOutcome(indexed.exc, indexed.catalog, indexed.warnings)

\* quantumorm create_table: engine and order_by come from kwargs only
OrmCreateTableOp(cat, cls, kwargs) ==
    LET engine == IF kwargs.engine # AbsentKey THEN kwargs.engine ELSE "MergeTree"
    IN  SchemaOutcome("none",
                      StoreCreateTable(cat, TableName,
                                       TableDef(OrmColumns(cls.fields), engine, <<"id">>)),
                      0)

CreateTableCall(package, cls, kwargs, again, first, res) ==
    [op |-> "create_table", package |-> package, cls |-> cls, kwargs |-> kwargs,
     again |-> again, first |-> first, before |-> catalog,
     out |-> [exc |-> res.exc, warnings |-> res.warnings]]

ChCreateTable ==
    /\ last.op = "idle"
    /\ \E cls \in SchemaClasses, kwargs \in CreateKwargs :
          LET res == ChCreateTableOp(catalog, cls, kwargs)
          IN  /\ last' = CreateTableCall("quantumengine", cls, kwargs, FALSE, "none", res)
              /\ catalog' = res.catalog
    /\ UNCHANGED <<table, emptyInList, backends, pool>>

\* the caller repeats its create_table call
ChCreateTableAgain ==
    /\ last.op = "create_table"
    /\ last.package = "quantumengine"
    /\ ~last.again
    /\ LET res == ChCreateTableOp(catalog, last.cls, last.kwargs)
       IN  /\ last' = CreateTableCall("quantumengine", last.cls, last.kwargs, TRUE,
                                      last.out.exc, res)
           /\ catalog' = res.catalog
    /\ UNCHANGED <<table, emptyInList, backends, pool>>

OrmCreateTable ==
    /\ last.op = "idle"
    /\ \E cls \in SchemaClasses, kwargs \in CreateKwargs :
          LET res == OrmCreateTableOp(catalog, cls, kwargs)
          IN  /\ last' = CreateTableCall("quantumorm", cls, kwargs, FALSE, "none", res)
              /\ catalog' = res.catalog
    /\ UNCHANGED <<table, emptyInList, backends, pool>>

\* drop_table(table_name, if_exists=True)
DropTable ==
    /\ last.op = "idle"
    /\ last' = [op |-> "drop_table"]
    /\ catalog' = StoreDropTable(catalog, TableName)
    /\ UNCHANGED <<table, emptyInList, backends, pool>>

SchemaReturn ==
    /\ last.op # "idle"
    /\ last' = Idle
    /\ UNCHANGED <<table, emptyInList, catalog, backends, pool>>

(***************************************************************************)
(* Materialized views of the columnar adapter.  _build_source_query of the *)
(* view class is an opaque text that depends on the class only.            *)
(***************************************************************************)
ViewClasses ==
    [view_name : {"daily_sales"},
     engine : {AbsentKey, "SummingMergeTree"},
     order_by : {<<>>, <<"day">>},
     dimension_fields : {<<"day">>, <<"day", "kind">>}]

SourceQuery(view_cls) == <<"source_query", view_cls.view_name>>

\* the statement create_materialized_view builds
ViewDefinition(view_cls) ==
    [name |-> view_cls.view_name,
     engine |-> IF view_cls.engine = AbsentKey THEN "AggregatingMergeTree"
                ELSE view_cls.engine,
     order_by |-> IF view_cls.order_by # <<>> THEN view_cls.order_by
                  ELSE view_cls.dimension_fields,
     source |-> SourceQuery(view_cls)]

\* CREATE MATERIALIZED VIEW IF NOT EXISTS
StoreCreateView(cat, def) ==
    IF def.name \in DOMAIN cat.views THEN cat
    ELSE [cat EXCEPT !.views = Put(@, def.name, def)]

\* DROP VIEW IF EXISTS
StoreDropView(cat, name) ==
    [cat EXCEPT !.views = [n \in (DOMAIN @) \ {name} |-> @[n]]]

\* a call of _execute(self, conn, query) with the positional arguments given:
\* binding the parameters fails before any I/O when one is missing
ExecuteBinds(positional_args) == positional_args = 2

ViewOutcome(exc, cat, submitted) == [exc |-> exc, catalog |-> cat, submitted |-> submitted]

\* "nothing was sent to the store", and the statement that was
NotSubmitted == [some |-> FALSE, query |-> <<>>]
Submitted(query) == [some |-> TRUE, query |-> query]

\* create_materialized_view: it ends with self._execute(query)
ChCreateMaterializedViewOp(cat, view_cls) ==
    LET query == ViewDefinition(view_cls)
    IN  IF ExecuteBinds(1) THEN ViewOutcome("none", StoreCreateView(cat, query),
                                            Submitted(query))
        ELSE ViewOutcome("TypeError", cat, NotSubmitted)

\* drop_materialized_view: it ends with self._execute(query)
ChDropMaterializedViewOp(cat, view_cls) ==
    LET query == <<"DROP", "VIEW", "IF", "EXISTS", view_cls.view_name>>
    IN  IF ExecuteBinds(1) THEN ViewOutcome("none", StoreDropView(cat, view_cls.view_name),
                                            Submitted(query))
        ELSE ViewOutcome("TypeError", cat, NotSubmitted)

ViewCall(op, step, view_cls, first, res) ==
    [op |-> op, step |-> step, cls |-> view_cls, first |-> first,
     submitted |-> res.submitted, out |-> [exc |-> res.exc]]

ChCreateView ==
    /\ last.op = "idle"
    /\ \E view_cls \in ViewClasses :
          LET res == ChCreateMaterializedViewOp(catalog, view_cls)
          IN  /\ last' = ViewCall("create_view", 1, view_cls, res.submitted, res)
              /\ catalog' = res.catalog
    /\ UNCHANGED <<table, emptyInList, backends, pool>>

\* the caller goes on with drop_view of the same class
ChDropView ==
    /\ last.op = "create_view"
    /\ last.step = 1
    /\ LET res == ChDropMaterializedViewOp(catalog, last.cls)
       IN  /\ last' = ViewCall("drop_view", 2, last.cls, last.first, res)
           /\ catalog' = res.catalog
    /\ UNCHANGED <<table, emptyInList, backends, pool>>

\* and with create_view of the same class again
ChCreateViewAgain ==
    /\ last.op = "drop_view"
    /\ LET res == ChCreateMaterializedViewOp(catalog, last.cls)
       IN  /\ last' = ViewCall("create_view", 3, last.cls, last.first, res)
           /\ catalog' = res.catalog
    /\ UNCHANGED <<table, emptyInList, backends, pool>>

NextSchema ==
    \/ ChCreateTable
    \/ ChCreateTableAgain
    \/ OrmCreateTable
    \/ DropTable
    \/ ChCreateView
    \/ ChDropView
    \/ ChCreateViewAgain
    \/ SchemaReturn

SpecSchema == InitCond /\ [][NextSchema]_vars

\* C12: create_table for a class whose Meta declares no engine, with no engine
\* option passed, succeeds, and the table it creates has the MergeTree engine.
C12_DefaultEngine ==
    (last.op = "create_table" /\ last.cls.engine = NoneName
        /\ last.kwargs.engine = AbsentKey) =>
        /\ last.out.exc = "none"
        /\ TableName \in DOMAIN catalog.tables
        /\ TableName \notin DOMAIN last.before.tables =>
              catalog.tables[TableName].engine = "MergeTree"

LastIndexStatements == IndexStatements(TableName, last.cls.fields)

\* the store can build the index of statement st on the table as it is: the
\* type is known and the field is a column
Buildable(st) ==
    /\ st.type \in StoreIndexTypes
    /\ \E i \in 1..Len(catalog.tables[TableName].columns) :
          catalog.tables[TableName].columns[i].name = st.field

\* C26: a create_table that names an engine returns normally with the table
\* created, whatever index statements the store refuses: every refusal is
\* counted as a warning, and every declared index the store can build is in
\* the store afterwards, those declared after a refused one included.
C26_IndexFailureSwallowed ==
    (last.op = "create_table" /\ last.package = "quantumengine"
        /\ (last.kwargs.engine # AbsentKey \/ last.cls.engine # NoneName)) =>
        /\ last.out.exc = "none"
        /\ TableName \in DOMAIN catalog.tables
        /\ \A i \in 1..Len(LastIndexStatements) :
              Buildable(LastIndexStatements[i]) =>
                  LastIndexStatements[i].name \in DOMAIN catalog.tables[TableName].indexes
        /\ (\E i \in 1..Len(LastIndexStatements) : ~Buildable(LastIndexStatements[i]))
              => last.out.warnings > 0

\* C26 witness: a first create_table whose first index statement was refused
\* and whose second one built its index.
C26_Witness ==
    /\ last.op = "create_table" /\ last.package = "quantumengine" /\ ~last.again
    /\ last.out.exc = "none"
    /\ last.out.warnings = 1
    /\ Len(LastIndexStatements) = 2
    /\ ~Buildable(LastIndexStatements[1])
    /\ LastIndexStatements[2].name \in DOMAIN catalog.tables[TableName].indexes
    /\ LastIndexStatements[2].name \notin DOMAIN last.before.tables

(***************************************************************************)
(* insert of the columnar adapters.  A row the caller passes is a dict     *)
(* with the key a and, optionally, the key id; the table has the column a  *)
(* and, depending on who created it, the column id.  A stored row has      *)
(* every column of the table; a column the INSERT does not name gets the   *)
(* default of its type.                                                    *)
(***************************************************************************)
\* the values of str(uuid.uuid4()) in the model
Uuids == {"u1", "u2"}

\* the ids a caller passes: the empty string and a proper id
CallerIds == {"", "x1"}

InsertData ==
    {[a |-> n] : n \in ColVals} \cup {[id |-> i, a |-> n] : i \in CallerIds, n \in ColVals}

\* the column lists of the tables inserted into
InsertColumns == {<<"id", "a">>, <<"a">>}

CatalogOf(columns) ==
    [tables |-> Put(EmptyDict, TableName,
                    TableDef([i \in 1..Len(columns) |->
                                 Column(columns[i], IF columns[i] = "id" THEN "String"
                                                    ELSE "Int64", "plain")],
                             "MergeTree", <<"a">>)),
     views |-> EmptyDict]

\* row[0] for row in describe_result
ColumnNames(cat) ==
    LET cols == cat.tables[TableName].columns
    IN  {cols[i].name : i \in 1..Len(cols)}

\* 'id' not in data or not data['id']
LacksId(data) == "id" \notin DOMAIN data \/ data["id"] = ""

DefaultOf(column) == IF column = "id" THEN "" ELSE 0

\* conn.insert(table_name, [values], column_names=columns)
StoreInsertOk(cat, data) == DOMAIN data \subseteq ColumnNames(cat)
StoreInsert(cat, rows, data) ==
    Append(rows, [c \in ColumnNames(cat) |->
                     IF c \in DOMAIN data THEN data[c] ELSE DefaultOf(c)])

InsertOutcome(exc, value, rows) == [exc |-> exc, value |-> value, rows |-> rows]

\* quantumengine _insert_op; describe_raises: the DESCRIBE query raised
ChInsertOp(cat, rows, data, describe_raises, uuid) ==
    LET stored ==
            IF describe_raises
            THEN IF LacksId(data) THEN Put(data, "id", uuid) ELSE data
            ELSE IF "id" \in ColumnNames(cat) /\ LacksId(data)
                 THEN Put(data, "id", uuid) ELSE data
    IN  IF StoreInsertOk(cat, stored)
        THEN InsertOutcome("none", stored, StoreInsert(cat, rows, stored))
        ELSE InsertOutcome("DatabaseError", EmptyDict, rows)

\* quantumorm insert
OrmInsertOp(cat, rows, data, uuid) ==
    LET stored == IF LacksId(data) THEN Put(data, "id", uuid) ELSE data
    IN  IF StoreInsertOk(cat, stored)
        THEN InsertOutcome("none", stored, StoreInsert(cat, rows, stored))
        ELSE InsertOutcome("DatabaseError", EmptyDict, rows)

InsertCall(package, data, describe_raises, uuid, res) ==
    [op |-> "insert", package |-> package, data |-> data,
     describe_raises |-> describe_raises, uuid |-> uuid,
     out |-> [exc |-> res.exc, value |-> res.value]]

ChInsert ==
    /\ last.op = "idle"
    /\ Len(table) < MaxRows
    /\ \E data \in InsertData, describe_raises \in BOOLEAN, uuid \in Uuids :
          LET res == ChInsertOp(catalog, table, data, describe_raises, uuid)
          IN  /\ last' = InsertCall("quantumengine", data, describe_raises, uuid, res)
              /\ table' = res.rows
    /\ UNCHANGED <<emptyInList, catalog, backends, pool>>

OrmInsert ==
    /\ last.op = "idle"
    /\ Len(table) < MaxRows
    /\ \E data \in InsertData, uuid \in Uuids :
          LET res == OrmInsertOp(catalog, table, data, uuid)
          IN  /\ last' = InsertCall("quantumorm", data, FALSE, uuid, res)
              /\ table' = res.rows
    /\ UNCHANGED <<emptyInList, catalog, backends, pool>>

InitInsert ==
    /\ table = <<>>
    /\ emptyInList = TRUE
    /\ last = Idle
    /\ catalog \in {CatalogOf(columns) : columns \in InsertColumns}
    /\ backends = EmptyDict
    /\ pool = NoPool

InsertReturn ==
    /\ last.op # "idle"
    /\ last' = Idle
    /\ UNCHANGED <<table, emptyInList, catalog, backends, pool>>

NextInsert == ChInsert \/ OrmInsert \/ InsertReturn

SpecInsert == InitInsert /\ [][NextInsert]_vars

\* C13: insert returns the stored row with a non-empty id: the caller's id
\* when it passed a non-empty one, a generated id otherwise, whatever the
\* columns of the table and whether or not the DESCRIBE probe failed.
C13_InsertAssignsId ==
    (last.op = "insert" /\ last.package = "quantumengine") =>
        /\ last.out.exc = "none"
        /\ "id" \in DOMAIN last.out.value
        /\ last.out.value["id"] =
              (IF LacksId(last.data) THEN last.uuid ELSE last.data["id"])

(***************************************************************************)
(* update and delete of the columnar adapter, on the table of rows over    *)
(* Columns.  update is one step; delete is two steps, the count query and  *)
(* the ALTER TABLE DELETE statement, with an await in between at which     *)
(* other callers of the same store may run.                                *)
(***************************************************************************)
MutateConds == {Built("a", "=", PyInt(0)), Built("b", "=", PyInt(1))}
MutateCondLists == SeqsUpTo(MutateConds, MaxConds)

\* the partial rows a caller passes to update
Patches ==
    {EmptyDict} \cup {[a |-> n] : n \in ColVals} \cup {[b |-> n] : n \in ColVals}
    \cup {[a |-> n, b |-> n] : n \in ColVals}

\* set_clauses: one assignment per key of data, the value through format_value
SetClauses(data) ==
    LET keys == SelectSeq(Columns, LAMBDA c : c \in DOMAIN data)
    IN  [i \in 1..Len(keys) |->
            [column |-> keys[i], literal |-> ChFormatValue(PyInt(data[keys[i]]))]]

\* doc.update(data)
DictUpdate(doc, data) ==
    [key \in (DOMAIN doc) \cup (DOMAIN data) |->
        IF key \in DOMAIN data THEN data[key] ELSE doc[key]]

\* ALTER TABLE t UPDATE set_clauses WHERE where: refused when the list of
\* assignments is empty or the WHERE text does not parse
StoreUpdateOk(set_clauses, where, emptyOk) ==
    /\ set_clauses # <<>>
    /\ \A i \in 1..Len(set_clauses) :
          set_clauses[i].column \in ColSet /\ Len(set_clauses[i].literal) = 1
            /\ IsIntLit(set_clauses[i].literal[1])
    /\ WhereOk("ch", where, emptyOk)

StoreUpdate(rows, set_clauses, where, emptyOk) ==
    LET assigned(row) ==
            [c \in ColSet |->
                IF \E i \in 1..Len(set_clauses) : set_clauses[i].column = c
                THEN LitVal(set_clauses[CHOOSE i \in 1..Len(set_clauses) :
                                            set_clauses[i].column = c].literal[1])
                ELSE row[c]]
    IN  [i \in 1..Len(rows) |->
            IF where = <<>> \/ EvalExpr("ch", where, rows[i], emptyOk) = "T"
            THEN assigned(rows[i]) ELSE rows[i]]

\* ALTER TABLE t DELETE WHERE where
StoreDelete(rows, where, emptyOk) ==
    SelectSeq(rows, LAMBDA row : ~(where = <<>> \/ EvalExpr("ch", where, row, emptyOk) = "T"))

UpdateOutcome(exc, value, rows, mutated) ==
    [exc |-> exc, value |-> value, rows |-> rows, mutated |-> mutated]

\* _update_op after its select: docs_to_update is what the select returned
ChUpdateDocs(docs_to_update, rows, emptyOk, conditions, data) ==
    LET set_clauses == SetClauses(data)
        where == WhereClause(conditions)
    IN  IF docs_to_update.exc # "none"
        THEN UpdateOutcome(docs_to_update.exc, <<>>, rows, FALSE)
        ELSE IF docs_to_update.value = <<>>
        THEN UpdateOutcome("none", <<>>, rows, FALSE)
        ELSE IF ~StoreUpdateOk(set_clauses, where, emptyOk)
        THEN UpdateOutcome("DatabaseError", <<>>, rows, TRUE)
        ELSE UpdateOutcome("none",
                           [i \in 1..Len(docs_to_update.value) |->
                               DictUpdate(docs_to_update.value[i], data)],
                           StoreUpdate(rows, set_clauses, where, emptyOk), TRUE)

\* _update_op
ChUpdateOp(rows, emptyOk, conditions, data) ==
    ChUpdateDocs(ChSelectOp(rows, emptyOk, conditions, <<>>, Nothing, Nothing, <<>>),
                 rows, emptyOk, conditions, data)

\* the call of update as the caller sees it: res is what _update_op produced
UpdateCall(conds, data, before, res) ==
    [op |-> "update", backend |-> "clickhouse", conds |-> conds,
     data |-> data, before |-> before, mutated |-> res.mutated,
     rows |-> res.rows, out |-> [exc |-> res.exc, value |-> res.value]]

ChUpdate ==
    /\ last.op = "idle"
    /\ \E conds \in MutateCondLists, data \in Patches :
          last' = UpdateCall(conds, data, table,
                             ChUpdateOp(table, emptyInList,
                                        CondTexts("clickhouse", conds), data))
    /\ table' = last'.rows
    /\ UNCHANGED <<emptyInList, catalog, backends, pool>>

\* _delete_op up to the await of its ALTER TABLE DELETE: the count query
ChDeleteCount ==
    /\ last.op = "idle"
    /\ \E conds \in MutateCondLists :
          LET count == ChCountOp(table, emptyInList, CondTexts("clickhouse", conds))
          IN  last' = [op |-> "delete", backend |-> "clickhouse", conds |-> conds,
                       pc |-> IF count.exc = "none" /\ count.value # 0
                              THEN "counted" ELSE "done",
                       count |-> count.value, deleted |-> 0,
                       out |-> count]
    /\ UNCHANGED <<table, emptyInList, catalog, backends, pool>>

\* _delete_op from there: the statement runs and count is returned
ChDeleteExecute ==
    /\ last.op = "delete"
    /\ last.pc = "counted"
    /\ LET where == WhereClause(CondTexts("clickhouse", last.conds))
           kept == StoreDelete(table, where, emptyInList)
       IN  /\ table' = kept
           /\ last' = [last EXCEPT !.pc = "done", !.deleted = Len(table) - Len(kept),
                                   !.out = Ok(last.count)]
    /\ UNCHANGED <<emptyInList, catalog, backends, pool>>

\* between the two statements another caller inserts a row
OtherInsert ==
    /\ last.op = "delete"
    /\ last.pc = "counted"
    /\ Len(table) < MaxRows
    /\ \E row \in Rows : table' = Append(table, row)
    /\ UNCHANGED <<emptyInList, last, catalog, backends, pool>>

\* between the two statements another caller deletes a row
OtherDelete ==
    /\ last.op = "delete"
    /\ last.pc = "counted"
    /\ \E i \in 1..Len(table) :
          table' = SubSeq(table, 1, i - 1) \o SubSeq(table, i + 1, Len(table))
    /\ UNCHANGED <<emptyInList, last, catalog, backends, pool>>

MutateReturn ==
    /\ last.op = "update" \/ (last.op = "delete" /\ last.pc = "done")
    /\ last' = Idle
    /\ UNCHANGED <<table, emptyInList, catalog, backends, pool>>

InitMutate ==
    /\ table \in Tables
    /\ emptyInList = TRUE
    /\ last = Idle
    /\ catalog = EmptyCatalog
    /\ backends = EmptyDict
    /\ pool = NoPool

NextMutate ==
    \/ ChUpdate
    \/ ChDeleteCount
    \/ ChDeleteExecute
    \/ OtherInsert
    \/ OtherDelete
    \/ MutateReturn

SpecMutate == InitMutate /\ [][NextMutate]_vars

\* the rows that matched the predicates of the last update before it ran
MatchedBefore == SelectSeq(last.before, SatisfiesAll)

\* C14: update returns exactly the rows that matched before the mutation,
\* each with the fields of the patch overriding its values and every other
\* field unchanged; when no row matches it returns the empty list and issues
\* no mutation statement.
C14_UpdateReturnsPatchedPreImage ==
    last.op = "update" =>
        /\ last.out.exc = "none"
        /\ last.out.value =
              [i \in 1..Len(MatchedBefore) |-> DictUpdate(MatchedBefore[i], last.data)]
        /\ MatchedBefore = <<>> => ~last.mutated

\* C15: delete returns the number of rows its statement deleted, whatever
\* other callers insert or delete between its count query and its statement.
C15_DeleteCountIsExact ==
    (last.op = "delete" /\ last.pc = "done" /\ last.out.exc = "none") =>
        last.out.value = last.deleted

\* C17: create_view; drop_view; create_view succeeds at every step, and the
\* second create_view submits the view definition the first one submitted.
C17_ViewRecreation ==
    (last.op \in {"create_view", "drop_view"}) =>
        /\ last.out.exc = "none"
        /\ last.submitted.some
        /\ (last.op = "create_view" /\ last.step = 3) => last.submitted = last.first

(***************************************************************************)
(* Document data on its way to the document/graph store.  A Decimal of the *)
(* model is a number of tenths, m / 10; a float is a binary fraction with  *)
(* FloatBits fractional bits, n / 2^FloatBits (a double has 52).           *)
(***************************************************************************)
MaxMantissa == 12
FloatBits == 3

PyDecimal(m) == [t |-> "decimal", v |-> <<m>>]
PyFloat(n) == [t |-> "float", v |-> <<n>>]

RECURSIVE Pow2Rec(_)
Pow2Rec(k) == IF k = 0 THEN 1 ELSE 2 * Pow2Rec(k - 1)

\* float(value) of a Decimal: the nearest binary fraction
FloatOfDecimal(value) ==
    PyFloat((2 * value.v[1] * Pow2Rec(FloatBits) + 10) \div 20)

\* str(value) of a Decimal
DecimalStr(value) ==
    <<DigitStr[((value.v[1] \div 10) % 10) + 1], ".", DigitStr[(value.v[1] % 10) + 1]>>

Decimals == {PyDecimal(m) : m \in 0..MaxMantissa}

\* the rows handed to insert and update: a decimal field, a text field and an
\* integer field, each optional
DocumentData ==
    UNION {[keys -> Decimals \cup {PyStr(<<"a">>)} \cup {PyInt(n) : n \in Ints}] :
              keys \in (SUBSET {"price", "qty"}) \ {{}}}

\* get_field_type of the document/graph adapter
SdbGetFieldType(field_class) ==
    CASE field_class = "StringField" -> "string"
      [] field_class = "IntField" -> "int"
      [] field_class = "FloatField" -> "float"
      [] field_class = "BooleanField" -> "bool"
      [] field_class = "DateTimeField" -> "datetime"
      [] field_class = "UUIDField" -> "uuid"
      [] field_class = "DictField" -> "object"
      [] field_class = "DecimalField" -> "decimal"
      [] OTHER -> "any"

\* _format_document_data; no value of the model has a to_db method
SdbFormatDocumentData(data) ==
    [key \in DOMAIN data |->
        IF data[key].t = "decimal" THEN FloatOfDecimal(data[key]) ELSE data[key]]

\* _insert_op formats the row and hands it to conn.create
SdbFormatDocumentDataCall ==
    /\ last.op = "idle"
    /\ \E data \in DocumentData :
          last' = [op |-> "format_document_data", data |-> data,
                   out |-> SdbFormatDocumentData(data)]
    /\ UNCHANGED <<table, emptyInList, catalog, backends, pool>>

NextDocumentData == SdbFormatDocumentDataCall \/ Return

SpecDocumentData == InitCond /\ [][NextDocumentData]_vars

\* C18: the document/graph adapter maps decimal fields to the store's decimal
\* type, and a Decimal of a row is handed to the store as a Decimal or as the
\* string of its digits, never as a binary float.
C18_DecimalNeverFloat ==
    /\ SdbGetFieldType("DecimalField") = "decimal"
    /\ last.op = "format_document_data" =>
          \A key \in DOMAIN last.data :
              last.data[key].t = "decimal" =>
                  \/ last.out[key] = last.data[key]
                  \/ last.out[key] = PyStr(DecimalStr(last.data[key]))

(***************************************************************************)
(* BackendRegistry of the backends package, and _register_backends, which  *)
(* runs when the package is imported.  last.log is the sequence of the     *)
(* register calls made so far, kept to state the properties.               *)
(***************************************************************************)
MaxRegisters == 2

BackendNames == {"surrealdb", "clickhouse", "redis"}
BackendClasses == {"SurrealDBBackend", "ClickHouseBackend", "CustomBackend"}

\* cls._backends.setdefault(name, backend_class)
RegistryRegisterFirstWins(reg, name, backend_class) ==
    IF name \in DOMAIN reg THEN reg ELSE Put(reg, name, backend_class)

\* BackendRegistry.register
RegistryRegister(reg, name, backend_class) == Put(reg, name, backend_class)

\* BackendRegistry.get_backend
RegistryGetBackend(reg, name) ==
    IF name \notin DOMAIN reg THEN Fail("ValueError") ELSE Ok(reg[name])

\* BackendRegistry.list_backends
RegistryListBackends(reg) == DOMAIN reg

\* how the import of a driver module ends: it loads, it raises ImportError,
\* or it raises another exception
LoadOutcomes == {"ok", "ImportError", "OtherError"}
DriverModules == <<[name |-> "surrealdb", class |-> "SurrealDBBackend"],
                   [name |-> "clickhouse", class |-> "ClickHouseBackend"]>>
DriverNames == {DriverModules[i].name : i \in 1..Len(DriverModules)}

\* _register_backends from its i-th try block on; load[name] is how the
\* import of the driver module of name ends.  failed is what the registry
\* keeps about the imports that raised: the handlers are `pass`
RECURSIVE RegisterBackendsFrom(_, _, _, _)
RegisterBackendsFrom(i, reg, log, load) ==
    IF i > Len(DriverModules) THEN [exc |-> "none", backends |-> reg, log |-> log, failed |-> {}]
    ELSE LET m == DriverModules[i]
         IN  CASE load[m.name] = "ok" ->
                    RegisterBackendsFrom(i + 1, RegistryRegister(reg, m.name, m.class),
                                         Append(log, <<m.name, m.class>>), load)
               [] load[m.name] = "ImportError" ->
                    RegisterBackendsFrom(i + 1, reg, log, load)
               [] OTHER ->
                    [exc |-> load[m.name], backends |-> reg, log |-> log, failed |-> {}]

RegisterBackends(reg, load) == RegisterBackendsFrom(1, reg, <<>>, load)

\* the package is imported: _register_backends() runs once, before any use
ImportBackendsPackage ==
    /\ last.op = "start"
    /\ \E load \in [DriverNames -> LoadOutcomes] :
          LET res == RegisterBackends(backends, load)
          IN  /\ backends' = res.backends
              /\ last' = [op |-> "import", load |-> load, log |-> res.log,
                          out |-> [exc |-> res.exc, failed |-> res.failed]]
    /\ UNCHANGED <<table, emptyInList, catalog, pool>>

Register ==
    /\ last.op = "idle"
    /\ Len(last.log) < Len(DriverModules) + MaxRegisters
    /\ \E name \in BackendNames, backend_class \in BackendClasses :
          /\ backends' = RegistryRegister(backends, name, backend_class)
          /\ last' = [op |-> "register", name |-> name, backend_class |-> backend_class,
                      before |-> backends,
                      log |-> Append(last.log, <<name, backend_class>>)]
    /\ UNCHANGED <<table, emptyInList, catalog, pool>>

GetBackend ==
    /\ last.op = "idle"
    /\ \E name \in BackendNames :
          last' = [op |-> "get_backend", name |-> name, before |-> backends,
                   log |-> last.log, out |-> RegistryGetBackend(backends, name)]
    /\ UNCHANGED <<table, emptyInList, catalog, backends, pool>>

\* the caller goes on; an import that raised leaves no package to use
RegistryReturn ==
    /\ last.op \in {"register", "get_backend"} \/ (last.op = "import" /\ last.out.exc = "none")
    /\ last' = [op |-> "idle", log |-> last.log]
    /\ UNCHANGED <<table, emptyInList, catalog, backends, pool>>

InitRegistry ==
    /\ table = <<>>
    /\ emptyInList = TRUE
    /\ last = [op |-> "start", log |-> <<>>]
    /\ catalog = EmptyCatalog
    /\ backends = EmptyDict
    /\ pool = NoPool

NextRegistry == ImportBackendsPackage \/ Register \/ GetBackend \/ RegistryReturn

SpecRegistry == InitRegistry /\ [][NextRegistry]_vars

\* the register calls of the log that name the backend, as indexes
RegistrationsOf(log, name) == {i \in 1..Len(log) : log[i][1] = name}
MostRecent(log, name) ==
    log[CHOOSE i \in RegistrationsOf(log, name) :
            \A j \in RegistrationsOf(log, name) : j <= i][2]

\* C19: get(name) returns the factory of the most recent register(name, .);
\* registering a pair the registry already holds leaves it unchanged; get of
\* a name never registered raises the registry's unknown-backend error
\* (ValueError) and leaves the registry unchanged.
C19_RegistryLastWriteWins ==
    /\ \A name \in BackendNames :
          IF RegistrationsOf(last.log, name) = {}
          THEN RegistryGetBackend(backends, name).exc = "ValueError"
          ELSE RegistryGetBackend(backends, name) = Ok(MostRecent(last.log, name))
    /\ last.op = "get_backend" =>
          /\ backends = last.before
          /\ last.out = RegistryGetBackend(backends, last.name)
    /\ (last.op = "register" /\ last.name \in DOMAIN last.before
          /\ last.before[last.name] = last.backend_class) => backends = last.before

\* C19 witness: a get of a name that was registered twice, with different
\* factories, has returned.
C19_WitnessOverwrite ==
    /\ last.op = "get_backend"
    /\ \E i, j \in RegistrationsOf(last.log, last.name) :
          i < j /\ last.log[i][2] # last.log[j][2]
    /\ last.out.exc = "none"

\* C20: when the import of the driver module of A fails, the failure is
\* recorded for A, A is not listed, the import of the package does not abort,
\* and every backend whose module loads is registered and retrievable.
C20_ImportFailureIsolated ==
    last.op = "import" =>
        \A a \in DriverNames :
            last.load[a] # "ok" =>
                /\ a \in last.out.failed
                /\ a \notin RegistryListBackends(backends)
                /\ last.out.exc = "none"
                /\ \A i \in 1..Len(DriverModules) :
                      last.load[DriverModules[i].name] = "ok" =>
                          RegistryGetBackend(backends, DriverModules[i].name)
                            = Ok(DriverModules[i].class)

(***************************************************************************)
(* Transactions of the columnar adapter.  The adapter keeps nothing about  *)
(* a transaction; what a call does to the store is the list of statements  *)
(* it submits.                                                             *)
(***************************************************************************)
MaxCalls == 3

\* the handles a caller may pass to commit and rollback: what begin returned,
\* or any other object
Handles == {PyNone, PyStr(<<"a">>)}

TxnOutcome(exc, value, statements) ==
    [exc |-> exc, value |-> value, statements |-> statements]

\* begin_transaction: return None
ChBeginTransaction(transaction) == TxnOutcome("none", PyNone, <<>>)

\* a call that submits something; no transaction method of the adapter does
TxnSubmits(transaction) == TxnOutcome("none", PyNone, <<<<"COMMIT">>>>)

\* commit_transaction: pass
ChCommitTransaction(transaction) == TxnOutcome("none", PyNone, <<>>)

\* rollback_transaction: pass
ChRollbackTransaction(transaction) == TxnOutcome("none", PyNone, <<>>)

\* supports_transactions
ChSupportsTransactions == FALSE

TxnOps == {"begin_transaction", "commit_transaction", "rollback_transaction"}

TxnCalls == IF last.op \in TxnOps THEN last.calls ELSE 0

TxnCall(op, transaction, res) ==
    [op |-> op, transaction |-> transaction, calls |-> TxnCalls + 1,
     before |-> [table |-> table, catalog |-> catalog], out |-> res]

TxnReady == last.op \in TxnOps \cup {"idle"} /\ TxnCalls < MaxCalls

BeginTransaction ==
    /\ TxnReady
    /\ last' = TxnCall("begin_transaction", PyNone, ChBeginTransaction(PyNone))
    /\ UNCHANGED <<table, emptyInList, catalog, backends, pool>>

CommitTransaction ==
    /\ TxnReady
    /\ \E transaction \in Handles :
          last' = TxnCall("commit_transaction", transaction,
                          ChCommitTransaction(transaction))
    /\ UNCHANGED <<table, emptyInList, catalog, backends, pool>>

RollbackTransaction ==
    /\ TxnReady
    /\ \E transaction \in Handles :
          last' = TxnCall("rollback_transaction", transaction,
                          ChRollbackTransaction(transaction))
    /\ UNCHANGED <<table, emptyInList, catalog, backends, pool>>

TxnReturn ==
    /\ last.op \in TxnOps
    /\ last' = Idle
    /\ UNCHANGED <<table, emptyInList, catalog, backends, pool>>

InitTxn ==
    /\ table \in Tables
    /\ emptyInList = TRUE
    /\ last = Idle
    /\ catalog = EmptyCatalog
    /\ backends = EmptyDict
    /\ pool = NoPool

NextTxn == BeginTransaction \/ CommitTransaction \/ RollbackTransaction \/ TxnReturn

SpecTxn == InitTxn /\ [][NextTxn]_vars

\* C21: the capability flag is false, and a begin, commit or rollback, after
\* any calls before it, has not raised, has submitted no statement and has
\* left the rows and the schema of the store as they were.
C21_TransactionsAreNoOps ==
    /\ ~ChSupportsTransactions
    /\ last.op \in TxnOps =>
          /\ last.out.exc = "none"
          /\ last.out.statements = <<>>
          /\ table = last.before.table
          /\ catalog = last.before.catalog

\* C21 witness: a commit of a handle that begin did not return, as the third
\* call in a row, on a table that holds rows.
C21_Witness ==
    /\ last.op = "commit_transaction"
    /\ last.transaction # PyNone
    /\ last.calls = MaxCalls
    /\ table # <<>>

(***************************************************************************)
(* The specialised columnar fields FixedStringField and EnumField.  Their  *)
(* validate methods start with the validate of the parent class (Field,    *)
(* StringField), whose code is described by the field metamodel: required  *)
(* fields fail on a missing value, nullable fields pass it through, a      *)
(* value of another type than the field's fails, constraints are enforced, *)
(* and the value is returned as it is.                                     *)
(***************************************************************************)
FieldValueError == "ValueError"
FieldTypeError == "TypeError"
ValidationErrors == {FieldValueError, FieldTypeError}

\* Field.validate
FieldValidate(field, value) ==
    IF value = PyNone /\ field.required THEN Fail(FieldValueError) ELSE Ok(value)

\* StringField.validate: type, then max_length
StringFieldValidate(field, value) ==
    LET checked == FieldValidate(field, value)
    IN  IF checked.exc # "none" \/ value = PyNone THEN checked
        ELSE IF value.t # "str" THEN Fail(FieldTypeError)
        ELSE IF field.max_length.some /\ Len(value.v) > field.max_length.n
        THEN Fail(FieldValueError)
        ELSE Ok(value)

\* FixedStringField.__init__
FixedStringFieldInit(length, required) ==
    IF length <= 0 THEN Fail(FieldValueError)
    ELSE Ok([length |-> length, max_length |-> Some(length), required |-> required])

\* validate as it would be with the check of max_length only
FixedStringFieldValidateMax(field, value) == StringFieldValidate(field, value)

\* FixedStringField.validate
FixedStringFieldValidate(field, value) ==
    LET checked == StringFieldValidate(field, value)
    IN  IF checked.exc # "none" THEN checked
        ELSE IF checked.value # PyNone /\ Len(checked.value.v) # field.length
        THEN Fail(FieldValueError)
        ELSE checked

\* the declared names of an enum, with their codes
EnumNames == {<<"a">>, <<"a", "a">>, <<"_">>}
EnumCodes == 1..2
EnumValues == UNION {[names -> EnumCodes] : names \in SUBSET EnumNames}

\* EnumField.__init__
EnumFieldInit(values, required) ==
    IF DOMAIN values = {} THEN Fail(FieldValueError)
    ELSE Ok([values |-> values, required |-> required])

\* `value not in self.values`: a list is unhashable
NotInDict(value, dict) ==
    IF value.t = "list" THEN Fail(FieldTypeError)
    ELSE Ok(~(value.t = "str" /\ value.v \in DOMAIN dict))

\* validate as it would be looking the value up among the codes
EnumFieldValidateCodes(field, value) ==
    LET checked == FieldValidate(field, value)
    IN  IF checked.exc # "none" \/ value = PyNone THEN checked
        ELSE IF value.t = "int" /\ \E name \in DOMAIN field.values :
                                      field.values[name] = value.v[1]
        THEN checked ELSE Fail(FieldValueError)

\* EnumField.validate
EnumFieldValidate(field, value) ==
    LET checked == FieldValidate(field, value)
    IN  IF checked.exc # "none" \/ checked.value = PyNone THEN checked
        ELSE LET absent == NotInDict(checked.value, field.values)
             IN  IF absent.exc # "none" THEN absent
                 ELSE IF absent.value THEN Fail(FieldValueError)
                 ELSE checked

\* the values handed to validate
FieldInputs == {PyStr(s) : s \in Strs} \cup {PyNone, PyInt(1), PyList(<<>>)}

\* the declared lengths tried, the non-positive ones included
FixedLengths == (0 - 1)..MaxStrLen

\* FixedStringField(length=N, required=r).validate(value)
FixedStringValidateCall ==
    /\ last.op = "idle"
    /\ \E length \in FixedLengths, required \in BOOLEAN, value \in FieldInputs :
          LET made == FixedStringFieldInit(length, required)
          IN  last' = [op |-> "validate", kind |-> "FixedStringField",
                       declared |-> Some(length), required |-> required,
                       value |-> value, made |-> made.exc,
                       out |-> IF made.exc # "none" THEN made
                               ELSE FixedStringFieldValidate(made.value, value)]
    /\ UNCHANGED <<table, emptyInList, catalog, backends, pool>>

\* EnumField(values=S, required=r).validate(value)
EnumValidateCall ==
    /\ last.op = "idle"
    /\ \E values \in EnumValues, required \in BOOLEAN, value \in FieldInputs :
          LET made == EnumFieldInit(values, required)
          IN  last' = [op |-> "validate", kind |-> "EnumField",
                       declared |-> values, required |-> required,
                       value |-> value, made |-> made.exc,
                       out |-> IF made.exc # "none" THEN made
                               ELSE EnumFieldValidate(made.value, value)]
    /\ UNCHANGED <<table, emptyInList, catalog, backends, pool>>

NextFields == FixedStringValidateCall \/ EnumValidateCall \/ Return

SpecFields == InitCond /\ [][NextFields]_vars

C23_EnumDeclaredNames ==
    (last.op = "validate" /\ last.kind = "EnumField" /\ last.made = "none"
        /\ last.value # PyNone) =>
        IF last.value.t = "str" /\ last.value.v \in DOMAIN last.declared
        THEN last.out = Ok(last.value)
        ELSE last.out.exc \in ValidationErrors

\* C23 witness: the code of a declared name, which is not itself a name, has
\* been validated and refused, on a field that declares more than one name.
C23_WitnessCode ==
    /\ last.op = "validate" /\ last.kind = "EnumField" /\ last.made = "none"
    /\ last.value = PyInt(1)
    /\ \E x, y \in DOMAIN last.declared : x # y /\ last.declared[x] = 1
    /\ last.out.exc \in ValidationErrors

(***************************************************************************)
(* The connection pool, from its description: entries are idle, in-use,    *)
(* unhealthy or closed; acquire prefers an idle entry, creates one while   *)
(* the size is below max, and otherwise waits in a FIFO queue; release     *)
(* makes the entry idle, or unhealthy after a fatal transport error; the   *)
(* health check moves failing idle entries to unhealthy; eviction closes   *)
(* unhealthy entries, and closed entries are replaced up to min; close     *)
(* rejects new acquires, waits for the entries in use and force-closes.    *)
(* The pool serializes its own mutations: each operation is one step.      *)
(***************************************************************************)
MaxPool == 2
MaxCallers == 2
MaxCreated == 4

PoolCallers == 1..MaxCallers

\* pool_config: min and max
PoolConfigs == {cfg \in (0..MaxPool) \X (1..MaxPool) : cfg[1] <= cfg[2]}

\* entries are named by their position in the order of creation
EntriesIn(p, states) == {e \in 1..Len(p.entries) : p.entries[e] \in states}
Live(p) == Cardinality(EntriesIn(p, {"idle", "in-use", "unhealthy"}))

\* a pool as created: min idle entries, nobody holding or waiting
NewPool(min, max) ==
    [min |-> min, max |-> max, entries |-> [e \in 1..min |-> "idle"],
     held |-> [c \in PoolCallers |-> 0], waiters |-> <<>>, pending |-> 0,
     closing |-> FALSE]

CanCreate(p) == Live(p) < p.max /\ Len(p.entries) < MaxCreated

\* the entries acquire may hand out, were it to look at liveness only
AvailableLive(p) == EntriesIn(p, {"idle", "in-use"})

\* the entries acquire may hand out
Available(p) == EntriesIn(p, {"idle"})

\* entry e goes to caller c
HandOut(p, c, e) ==
    [p EXCEPT !.entries[e] = "in-use", !.held[c] = e]

\* a new entry is created for caller c
CreateFor(p, c) ==
    [p EXCEPT !.entries = Append(p.entries, "in-use"), !.held[c] = Len(p.entries) + 1]

\* release by caller c; fatal: the operation reported a fatal transport error
PoolRelease(p, c, fatal) ==
    LET e == p.held[c]
    IN  [p EXCEPT !.held[c] = 0,
                  !.entries[e] = IF p.entries[e] # "in-use" THEN @
                                 ELSE IF p.closing THEN "closed"
                                 ELSE IF fatal THEN "unhealthy"
                                 ELSE "idle"]

\* eviction of the unhealthy entry e
PoolEvict(p, e) ==
    [p EXCEPT !.entries[e] = "closed", !.pending = @ + 1]

\* replacement as it would be when every closed entry is replaced
PoolReplaceAlways(p) ==
    [p EXCEPT !.pending = @ - 1, !.entries = Append(@, "idle")]

\* a closed entry is replaced up to min
PoolReplace(p) ==
    [p EXCEPT !.pending = @ - 1,
              !.entries = IF ~p.closing /\ Live(p) < p.min THEN Append(@, "idle") ELSE @]

\* close: new acquires are rejected, waiters fail, entries not in use close
PoolClose(p) ==
    [p EXCEPT !.closing = TRUE, !.waiters = <<>>,
              !.entries = [e \in 1..Len(@) |-> IF @[e] = "in-use" THEN "in-use" ELSE "closed"]]

Waiting(p, c) == \E i \in 1..Len(p.waiters) : p.waiters[i] = c

\* what serving caller c does: an idle entry, else a new one
Serve(p, c, e) ==
    IF e \in Available(p) THEN HandOut(p, c, e) ELSE CreateFor(p, c)

\* the entries a served caller may get; 0 stands for a new entry
Servable(p) ==
    IF Available(p) # {} THEN Available(p)
    ELSE IF CanCreate(p) THEN {0} ELSE {}

\* acquire by a caller that holds nothing and is not waiting
Acquire ==
    /\ ~pool.closing
    /\ \E c \in PoolCallers :
          /\ pool.held[c] = 0
          /\ ~Waiting(pool, c)
          /\ IF pool.waiters = <<>> /\ Servable(pool) # {}
             THEN \E e \in Servable(pool) : pool' = Serve(pool, c, e)
             ELSE /\ Live(pool) = pool.max \/ pool.waiters # <<>>
                  /\ pool' = [pool EXCEPT !.waiters = Append(@, c)]
    /\ UNCHANGED <<table, emptyInList, last, catalog, backends>>

\* the first waiter is served
ServeWaiter ==
    /\ pool.waiters # <<>>
    /\ \E e \in Servable(pool) :
          pool' = [Serve(pool, Head(pool.waiters), e) EXCEPT !.waiters = Tail(@)]
    /\ UNCHANGED <<table, emptyInList, last, catalog, backends>>

\* a waiter gives up: AcquireTimeout
AcquireTimeout ==
    /\ \E i \in 1..Len(pool.waiters) :
          pool' = [pool EXCEPT !.waiters = SubSeq(@, 1, i - 1) \o SubSeq(@, i + 1, Len(@))]
    /\ UNCHANGED <<table, emptyInList, last, catalog, backends>>

Release ==
    /\ \E c \in PoolCallers, fatal \in BOOLEAN :
          /\ pool.held[c] # 0
          /\ pool' = PoolRelease(pool, c, fatal)
    /\ UNCHANGED <<table, emptyInList, last, catalog, backends>>

\* the probe of an idle entry fails, in the health loop or on acquire
HealthCheckFails ==
    /\ \E e \in EntriesIn(pool, {"idle"}) :
          pool' = [pool EXCEPT !.entries[e] = "unhealthy"]
    /\ UNCHANGED <<table, emptyInList, last, catalog, backends>>

Evict ==
    /\ \E e \in EntriesIn(pool, {"unhealthy"}) : pool' = PoolEvict(pool, e)
    /\ UNCHANGED <<table, emptyInList, last, catalog, backends>>

ReplaceClosed ==
    /\ pool.pending > 0
    /\ Len(pool.entries) < MaxCreated \/ pool.closing \/ Live(pool) >= pool.min
    /\ pool' = PoolReplace(pool)
    /\ UNCHANGED <<table, emptyInList, last, catalog, backends>>

Close ==
    /\ ~pool.closing
    /\ pool' = PoolClose(pool)
    /\ UNCHANGED <<table, emptyInList, last, catalog, backends>>

\* the grace period of close expires
ForceClose ==
    /\ pool.closing
    /\ \E e \in EntriesIn(pool, {"in-use"}) :
          pool' = [pool EXCEPT !.entries[e] = "closed"]
    /\ UNCHANGED <<table, emptyInList, last, catalog, backends>>

InitPool ==
    /\ table = <<>>
    /\ emptyInList = TRUE
    /\ last = Idle
    /\ catalog = EmptyCatalog
    /\ backends = EmptyDict
    /\ \E cfg \in PoolConfigs : pool = NewPool(cfg[1], cfg[2])

NextPool ==
    \/ Acquire
    \/ ServeWaiter
    \/ AcquireTimeout
    \/ Release
    \/ HealthCheckFails
    \/ Evict
    \/ ReplaceClosed
    \/ Close
    \/ ForceClose

SpecPool == InitPool /\ [][NextPool]_vars

\* nothing is in progress on an open pool: no entry is held, nobody waits,
\* no unhealthy entry awaits eviction and no closed one replacement
Quiescent ==
    /\ ~pool.closing
    /\ \A c \in PoolCallers : pool.held[c] = 0
    /\ pool.waiters = <<>>
    /\ EntriesIn(pool, {"in-use", "unhealthy"}) = {}
    /\ pool.pending = 0

\* C24: under every interleaving of acquire, release, health check, eviction
\* with replacement and close, the number of live entries is at most max
\* (and, a count, never negative); once the pool is quiescent it is at
\* least min.
C24_LiveEntriesWithinBounds ==
    /\ Live(pool) >= 0
    /\ Live(pool) <= pool.max
    /\ Quiescent => Live(pool) >= pool.min

\* C24 witness: a quiescent pool with min entries after an eviction and its
\* replacement, every entry it started with being closed.
C24_Witness ==
    /\ Quiescent
    /\ pool.min > 0
    /\ Live(pool) = pool.min
    /\ \A e \in 1..pool.min : pool.entries[e] = "closed"

\* C25: no entry is held by two callers at once, whatever the health check
\* has marked unhealthy in between.
C25_EntryHeldByOneCaller ==
    \A c, d \in PoolCallers :
        (c # d /\ pool.held[c] # 0) => pool.held[c] # pool.held[d]

\* C25 witness: two callers hold entries at once, after the health check has
\* made an entry unhealthy and it was evicted.
C25_Witness ==
    /\ \A c \in PoolCallers : pool.held[c] # 0
    /\ EntriesIn(pool, {"closed"}) # {}
    /\ ~pool.closing

(***************************************************************************)
(* insert_many of the columnar adapters.  A document of a batch has the    *)
(* key a and, optionally, the keys b and id; the table has the columns a   *)
(* and b and, depending on who created it, id.  The driver's insert takes  *)
(* one list of values per row and one list of column names for all rows; a *)
(* None among the values is stored as the default of the column.           *)
(***************************************************************************)
MaxBatch == 2

BatchDocs ==
    {[a |-> n] : n \in ColVals}
    \cup {[a |-> n, b |-> m] : n \in ColVals, m \in ColVals}
    \cup {[id |-> "x1", a |-> n] : n \in ColVals}

Batches == SeqsUpTo(BatchDocs, MaxBatch)

BatchColumns == {<<"id", "a", "b">>, <<"a", "b">>}

\* str(uuid.uuid4()) for the i-th document
UuidOf(i) == <<"u1", "u2", "u3", "u4">>[i]

\* the documents after the loop that gives each an id
WithIds(data, table_has_id) ==
    [i \in 1..Len(data) |->
        IF table_has_id /\ LacksId(data[i]) THEN Put(data[i], "id", UuidOf(i))
        ELSE data[i]]

\* [doc.get(col) for col in columns]: the values of doc under the columns it
\* has; the others are None
ValuesUnder(doc, columns) == [c \in columns \cap DOMAIN doc |-> doc[c]]

\* conn.insert(table_name, values, column_names=columns)
RECURSIVE StoreInsertMany(_, _, _)
StoreInsertMany(cat, rows, values) ==
    IF values = <<>> THEN rows
    ELSE StoreInsertMany(cat, StoreInsert(cat, rows, Head(values)), Tail(values))

\* columns = list(data[0].keys()); values = [[doc.get(col) ...] for doc in data]
ValuesOfBatch(docs) ==
    [i \in 1..Len(docs) |-> ValuesUnder(docs[i], DOMAIN docs[1])]

\* the batch after the ids are given, written to the store
InsertDocs(cat, rows, docs) ==
    IF DOMAIN docs[1] \subseteq ColumnNames(cat)
    THEN InsertOutcome("none", docs, StoreInsertMany(cat, rows, ValuesOfBatch(docs)))
    ELSE InsertOutcome("DatabaseError", <<>>, rows)

\* quantumengine _insert_many_op
ChInsertManyOp(cat, rows, data, describe_raises) ==
    IF data = <<>> THEN InsertOutcome("none", <<>>, rows)
    ELSE InsertDocs(cat, rows,
                    WithIds(data, describe_raises \/ "id" \in ColumnNames(cat)))

\* quantumorm insert_many
OrmInsertManyOp(cat, rows, data) ==
    IF data = <<>> THEN InsertOutcome("none", <<>>, rows)
    ELSE InsertDocs(cat, rows, WithIds(data, TRUE))

InsertManyCall(package, data, before, res) ==
    [op |-> "insert_many", package |-> package, data |-> data, before |-> before,
     rows |-> res.rows, out |-> [exc |-> res.exc, value |-> res.value]]

ChInsertMany ==
    /\ last.op = "idle"
    /\ \E data \in Batches, describe_raises \in BOOLEAN :
          /\ Len(table) + Len(data) <= MaxBatch
          /\ last' = InsertManyCall("quantumengine", data, table,
                                    ChInsertManyOp(catalog, table, data, describe_raises))
    /\ table' = last'.rows
    /\ UNCHANGED <<emptyInList, catalog, backends, pool>>

OrmInsertMany ==
    /\ last.op = "idle"
    /\ \E data \in Batches :
          /\ Len(table) + Len(data) <= MaxBatch
          /\ last' = InsertManyCall("quantumorm", data, table,
                                    OrmInsertManyOp(catalog, table, data))
    /\ table' = last'.rows
    /\ UNCHANGED <<emptyInList, catalog, backends, pool>>

InitInsertMany ==
    /\ table = <<>>
    /\ emptyInList = TRUE
    /\ last = Idle
    /\ catalog \in {CatalogOf(columns) : columns \in BatchColumns}
    /\ backends = EmptyDict
    /\ pool = NoPool

NextInsertMany == ChInsertMany \/ OrmInsertMany \/ InsertReturn

SpecInsertMany == InitInsertMany /\ [][NextInsertMany]_vars

\* C27: after an insert_many that returned, the rows appended to the table
\* are, in the order of the batch, the documents of the batch: the i-th new
\* row holds every key/value pair of the i-th document, whatever the keys of
\* the first document.
C27_InsertManyWritesEveryField ==
    (last.op = "insert_many" /\ last.out.exc = "none") =>
        /\ Len(table) = Len(last.before) + Len(last.data)
        /\ \A i \in 1..Len(last.data) :
              \A key \in DOMAIN last.data[i] :
                  (key # "id" \/ ~LacksId(last.data[i])) =>
                      /\ key \in DOMAIN table[Len(last.before) + i]
                      /\ table[Len(last.before) + i][key] = last.data[i][key]

(***************************************************************************)
(* execute_raw of the columnar adapters.  The query is a text, character   *)
(* by character; params is a dict, here the list of its items in the order *)
(* in which the dict yields them.                                          *)
(***************************************************************************)
MaxParams == 2

\* the names of parameters: a is a prefix of a_
ParamNames == {<<"a">>, <<"a", "_">>}

\* the characters a name is made of
NameLetters == {"a", "_"}

ParamValues ==
    {PyInt(1)} \cup {PyStr(s) : s \in SeqsUpTo({"a", ":", "_"}, MaxStrLen)}

\* the items of a dict: no key twice
ParamItems ==
    {items \in SeqsUpTo(ParamNames \X ParamValues, MaxParams) :
        \A i, j \in 1..Len(items) : i # j => items[i][1] # items[j][1]}

RawQueries ==
    {<<"%">>,
     <<"%", ":", "a">>,
     <<":", "a", "_", "%">>,
     <<":", "a", "%", ":", "a", "_">>,
     <<":", "a", "_", "%", ":", "a">>}

StartsWith(text, pat) == Len(text) >= Len(pat) /\ SubSeq(text, 1, Len(pat)) = pat

\* text.replace(pat, new), for a pattern that is not empty
RECURSIVE StrReplace(_, _, _)
StrReplace(text, pat, new) ==
    IF text = <<>> THEN <<>>
    ELSE IF StartsWith(text, pat)
    THEN new \o StrReplace(SubSeq(text, Len(pat) + 1, Len(text)), pat, new)
    ELSE <<Head(text)>> \o StrReplace(Tail(text), pat, new)

\* for key, value in params.items(): query = query.replace(f":{key}", ...)
RECURSIVE SubstituteParams(_, _)
SubstituteParams(query, items) ==
    IF items = <<>> THEN query
    ELSE SubstituteParams(StrReplace(query, <<":">> \o Head(items)[1],
                                     ChFormatValue(Head(items)[2])),
                          Tail(items))

\* _execute_raw_op up to its query: the text it sends
ChExecuteRawOp(query, items) == SubstituteParams(query, items)

ChExecuteRaw ==
    /\ last.op = "idle"
    /\ \E query \in RawQueries, items \in ParamItems :
          last' = [op |-> "execute_raw", query |-> query, params |-> items,
                   out |-> ChExecuteRawOp(query, items)]
    /\ UNCHANGED <<table, emptyInList, catalog, backends, pool>>

NextRaw == ChExecuteRaw \/ Return

SpecRaw == InitCond /\ [][NextRaw]_vars

\* the name that starts a text: its longest prefix made of name letters
RECURSIVE LeadingName(_)
LeadingName(text) ==
    IF text = <<>> \/ Head(text) \notin NameLetters THEN <<>>
    ELSE <<Head(text)>> \o LeadingName(Tail(text))

HasParam(items, name) == \E i \in 1..Len(items) : items[i][1] = name
ParamOf(items, name) == items[CHOOSE i \in 1..Len(items) : items[i][1] = name][2]

\* the query with each placeholder of a parameter replaced, in one pass over
\* the query, by the literal of that parameter
RECURSIVE Bound(_, _)
Bound(query, items) ==
    IF query = <<>> THEN <<>>
    ELSE IF Head(query) = ":" /\ HasParam(items, LeadingName(Tail(query)))
    THEN ChFormatValue(ParamOf(items, LeadingName(Tail(query))))
            \o Bound(SubSeq(query, Len(LeadingName(Tail(query))) + 2, Len(query)), items)
    ELSE <<Head(query)>> \o Bound(Tail(query), items)

\* C28: the text execute_raw sends is the query with each :name placeholder
\* replaced by the literal of its own parameter and nothing else changed,
\* whatever the order of params, also when one name is a prefix of another
\* and when a value contains text that looks like a placeholder.
C28_ExecuteRawBindsOwnParameter ==
    last.op = "execute_raw" => last.out = Bound(last.query, last.params)

(***************************************************************************)
(* The inferred sorting key against the columns create_table emits.        *)
(***************************************************************************)
\* the column create_table emits under the name, for the class of the last
\* call: the kinds are plain, Nullable and MATERIALIZED
EmittedKinds(name) ==
    {ChColumns(last.cls)[j].kind :
        j \in {x \in 1..Len(ChColumns(last.cls)) : ChColumns(last.cls)[x].name = name}}

\* C29: the inferred order-by is not empty and every name in it is a declared
\* field whose column create_table emits plain: neither Nullable nor
\* MATERIALIZED.
C29_OrderByOnPlainColumns ==
    last.op = "determine_smart_order_by" =>
        /\ last.out.order_by # <<>>
        /\ \A i \in 1..Len(last.out.order_by) :
              /\ \E j \in 1..Len(last.cls) : last.cls[j].name = last.out.order_by[i]
              /\ EmittedKinds(last.out.order_by[i]) = {"plain"}

(***************************************************************************)
(* insert of the document/graph adapter.  The table is the list of the     *)
(* records of the store, each with its record id and its content.  The ids *)
(* a caller passes are texts without a colon that are no numbers, so that  *)
(* the record id is RecordID(table_name, id).                              *)
(***************************************************************************)
SdbIds == {PyStr(<<"a">>), PyStr(<<"b">>)}

SdbDocs ==
    {[qty |-> PyInt(n)] : n \in Ints}
    \cup {[id |-> i, qty |-> PyInt(n)] : i \in SdbIds, n \in Ints}

\* the record id _insert_op builds from the id of the row
ToRecordID(table_name, id) == PyRecordID(table_name, id.v)

\* formatted_data.pop('id')
WithoutId(doc) == [key \in (DOMAIN doc) \ {"id"} |-> doc[key]]

SdbHas(rows, rid) == \E i \in 1..Len(rows) : rows[i].id = rid

\* the id the store gives a record created without one
SdbGeneratedId(rows) == PyRecordID(TableName, <<"g">> \o IntStr(Len(rows)))

SdbOutcome(exc, value, rows) == [exc |-> exc, value |-> value, rows |-> rows]

\* conn.create(record_id, data): refused when the record already exists
SdbStoreCreate(rows, rid, doc) ==
    IF SdbHas(rows, rid) THEN SdbOutcome("already exists", <<>>, rows)
    ELSE SdbOutcome("none", [id |-> rid, doc |-> doc],
                    Append(rows, [id |-> rid, doc |-> doc]))

\* conn.update(record_id, data): the content of the record is replaced
SdbStoreUpdate(rows, rid, doc) ==
    SdbOutcome("none", [id |-> rid, doc |-> doc],
               [i \in 1..Len(rows) |->
                   IF rows[i].id = rid THEN [id |-> rid, doc |-> doc] ELSE rows[i]])

\* what _insert_op does with the outcome of conn.create(record_id, ...)
SdbAfterCreate(created, rows, rid, doc) ==
    IF created.exc = "already exists" THEN SdbStoreUpdate(rows, rid, doc)
    ELSE created

\* _insert_op
SdbInsertOp(rows, data) ==
    IF /\ "id" \in DOMAIN SdbFormatDocumentData(data)
       /\ SdbFormatDocumentData(data)["id"] # PyStr(<<>>)
    THEN SdbAfterCreate(SdbStoreCreate(rows, ToRecordID(TableName, data["id"]),
                                       WithoutId(SdbFormatDocumentData(data))),
                        rows, ToRecordID(TableName, data["id"]),
                        WithoutId(SdbFormatDocumentData(data)))
    ELSE SdbStoreCreate(rows, SdbGeneratedId(rows), SdbFormatDocumentData(data))

SdbInsertCall(data, before, res) ==
    [op |-> "insert", backend |-> "surrealdb", data |-> data, before |-> before,
     rows |-> res.rows, out |-> [exc |-> res.exc, value |-> res.value]]

SdbInsert ==
    /\ last.op = "idle"
    /\ \E data \in SdbDocs :
          /\ Len(table) < MaxRows
                \/ ("id" \in DOMAIN data /\ SdbHas(table, ToRecordID(TableName, data["id"])))
          /\ last' = SdbInsertCall(data, table, SdbInsertOp(table, data))
    /\ table' = last'.rows
    /\ UNCHANGED <<emptyInList, catalog, backends, pool>>

NextSdbInsert == SdbInsert \/ Return

SpecSdbInsert == InitCond /\ [][NextSdbInsert]_vars

\* C30: an insert of a row whose id names a record the table already holds
\* fails with a conflict error and leaves the records of the table as they
\* were.
C30_InsertNeverOverwrites ==
    (last.op = "insert" /\ last.backend = "surrealdb" /\ "id" \in DOMAIN last.data
        /\ SdbHas(last.before, ToRecordID(TableName, last.data["id"]))) =>
        /\ last.out.exc # "none"
        /\ table = last.before

====
